---- MODULE Spec2Model ----
(***************************************************************************)
(* The correlation, deduplication and delivery engine of the Meshtastic    *)
(* ingester: MeshtasticIngester (meshtastic_ingester.py) with the dedup    *)
(* window and the batched writer of data_ingester_part1.py.                *)
(*                                                                         *)
(* Encoding of Python values:                                              *)
(*   - a dict is a function whose DOMAIN is the set of keys;               *)
(*   - latitude/longitude are kept as the protobuf integers latitude_i /   *)
(*     longitude_i (the division by 1e7 is injective and maps only 0 to a  *)
(*     falsy value), so the None produced for a zero field is NoneNum;     *)
(*   - None for name / hardware is the string NoneStr;                     *)
(*   - a missing "last_env_time" key is NoTime: telemetry.time is nonzero  *)
(*     and unsigned, so no stored timestamp equals it;                     *)
(*   - the wall clock is in whole seconds and never steps back;            *)
(*   - a value is kept in tenths (18.5 is 185), the unit of temperature    *)
(*     is written "C".                                                     *)
(*                                                                         *)
(* In Spec, SpecTime and SpecDedup a callback runs to completion before    *)
(* the next one starts; SpecRace interleaves the steps of two callbacks    *)
(* inside is_duplicate_reading, SpecWriter the steps of the threads that   *)
(* use the batched writer. SpecLoad starts a process beside cache files,   *)
(* SpecStart runs the connect loop of run(), SpecCache saves and loads     *)
(* the position cache as the JSON document it is on disk (elsewhere the    *)
(* file is held in its loaded form, saved_at left out). SpecReplay and     *)
(* SpecFeed feed a recorded message stream to a fresh process, twice in a  *)
(* row; there a message can fail to parse or decrypt and a write of a      *)
(* cache file can fail. In the other specifications the writes succeed.    *)
(***************************************************************************)
EXTENDS Integers, Sequences, FiniteSets, TLC

\* ---------------------------------------------------------------- constants
PENDING_TELEMETRY_MAX_AGE == 604800
FUTURE_TIMESTAMP_TOLERANCE == 30
DEDUP_CACHE_MAX_AGE == 3600
DEDUP_CACHE_CLEANUP_INTERVAL == 300
SAVE_EVERY == 10

NoneNum == 0
NoTime == 0
NoneStr == "None"
DEGREE_SCALE == 10000000                \* latitude_i / 1e7

\* ------------------------------------------------------------------- bounds
T0 == 1000000
MaxTicks == 2
MaxDeliveries == 3
MaxFtLog == 1
MaxRestarts == 1
MaxFileLen == 2
MaxInsertFailures == 2
MaxAppends == 4
MaxScript == 3
MaxReadings == 11
\* CLICKHOUSE_BATCH_SIZE is read from the environment (default 100); a small batch
\* makes the size-triggered flush happen within MaxDeliveries readings.
CLICKHOUSE_BATCH_SIZE == 3

Sources == {"US", "EU_868"}
Nodes == {"!000000a1"}
Jumps == {1, 3599}

VARIABLES
    now,                \* time.time()
    phase,              \* where the main thread is: "loop", "sd_saved", "sd_flushed", "stopped"
    positions,          \* self.stats[region]["positions"]
    pending_telemetry,  \* self.pending_telemetry
    pending_node_info,  \* self.pending_node_info
    dedup_cache,        \* dedup_cache
    dedup_last_cleanup, \* dedup_last_cleanup
    save_counter,       \* self._save_counter
    clickhouse_buffer,  \* clickhouse_buffer
    clickhouse_store,   \* rows the store accepted
    disk_positions,     \* the "nodes_with_position" file of each region
    disk_pending,       \* the "pending_telemetry" file of each region
    ft_log,             \* the future-timestamp log
    appended,           \* history: every row handed to the writer, with the time, the path
                        \* (telemetry or drain) and the process run that appended it
    expired,            \* history: pending readings the position drain filtered out
    delivered,          \* history: reading key -> the sources whose telemetry carried it, in order
    seen_position,      \* history: (region, node) pairs for which a valid position was handled
    inserts,            \* history: every clickhouse_client.insert call, its rows and outcome
    callback,           \* per source client thread: where it is inside a telemetry callback
    writer,             \* per thread using the writer: where it is inside add / flush
    ticks, restarts,    \* counters bounding the exploration
    replay,             \* the message stream being fed, and how far it has been fed
    startup             \* the connect loop of run(): regions to go, clients started, failures

vars == <<now, phase, positions, pending_telemetry, pending_node_info, dedup_cache,
          dedup_last_cleanup, save_counter, clickhouse_buffer, clickhouse_store,
          disk_positions, disk_pending, ft_log, appended, expired, delivered,
          seen_position, inserts, callback, writer, ticks, restarts, replay,
          startup>>

\* The engine's state as one value, so that a handler that calls another
\* handler several times is a composition of functions.
State ==
    [now |-> now, positions |-> positions, pending_telemetry |-> pending_telemetry,
     pending_node_info |-> pending_node_info, dedup_cache |-> dedup_cache,
     dedup_last_cleanup |-> dedup_last_cleanup, save_counter |-> save_counter,
     clickhouse_buffer |-> clickhouse_buffer, clickhouse_store |-> clickhouse_store,
     disk_positions |-> disk_positions, disk_pending |-> disk_pending,
     ft_log |-> ft_log, appended |-> appended, expired |-> expired,
     delivered |-> delivered, seen_position |-> seen_position, inserts |-> inserts,
     run |-> restarts,
     insert_ok |-> TRUE,
     disk_ok |-> TRUE]

SetState(s) ==
    /\ positions' = s.positions
    /\ pending_telemetry' = s.pending_telemetry
    /\ pending_node_info' = s.pending_node_info
    /\ dedup_cache' = s.dedup_cache
    /\ dedup_last_cleanup' = s.dedup_last_cleanup
    /\ save_counter' = s.save_counter
    /\ clickhouse_buffer' = s.clickhouse_buffer
    /\ clickhouse_store' = s.clickhouse_store
    /\ disk_positions' = s.disk_positions
    /\ disk_pending' = s.disk_pending
    /\ ft_log' = s.ft_log
    /\ appended' = s.appended
    /\ expired' = s.expired
    /\ delivered' = s.delivered
    /\ seen_position' = s.seen_position
    /\ inserts' = s.inserts

\* ------------------------------------------------------------ dict helpers
Put(d, k, v) == [x \in (DOMAIN d) \cup {k} |-> IF x = k THEN v ELSE d[x]]
Del(d, k) == [x \in (DOMAIN d) \ {k} |-> d[x]]
EmptyDict == [x \in {} |-> 0]

\* ------------------------------------------------------------ dedup window
DedupKey(node_id, reading_type, timestamp) == <<node_id, reading_type, timestamp>>

\* Mutation: an entry exactly DEDUP_CACHE_MAX_AGE old is kept.
cleanup_dedup_cache_inclusive(cache, current_time) ==
    LET cutoff_time == current_time - DEDUP_CACHE_MAX_AGE
    IN [k \in {k \in DOMAIN cache : cache[k] >= cutoff_time} |-> cache[k]]

\* dedup_cache = {k: v for k, v in dedup_cache.items() if v > cutoff_time}
cleanup_dedup_cache(cache, current_time) ==
    LET cutoff_time == current_time - DEDUP_CACHE_MAX_AGE
    IN [k \in {k \in DOMAIN cache : cache[k] > cutoff_time} |-> cache[k]]

\* Mutation: the cleanup keeps an entry for the cleanup interval only.
dedup_periodic_cleanup_short(st) ==
    IF st.now - st.dedup_last_cleanup > DEDUP_CACHE_CLEANUP_INTERVAL
    THEN [st EXCEPT !.dedup_cache =
              cleanup_dedup_cache(@, st.now - DEDUP_CACHE_CLEANUP_INTERVAL + DEDUP_CACHE_MAX_AGE),
                    !.dedup_last_cleanup = st.now]
    ELSE st

\* The periodic cleanup at the head of is_duplicate_reading.
dedup_periodic_cleanup(st) ==
    IF st.now - st.dedup_last_cleanup > DEDUP_CACHE_CLEANUP_INTERVAL
    THEN [st EXCEPT !.dedup_cache = cleanup_dedup_cache(@, st.now),
                    !.dedup_last_cleanup = st.now]
    ELSE st

\* is_duplicate_reading: the value returned ...
is_duplicate_reading(st, node_id, reading_type, timestamp) ==
    DedupKey(node_id, reading_type, timestamp) \in DOMAIN dedup_periodic_cleanup(st).dedup_cache

\* Mutation: a new key is not recorded.
after_is_duplicate_reading_unrecorded(st, node_id, reading_type, timestamp) ==
    dedup_periodic_cleanup(st)

\* ... and the state it leaves: cleaned when due, the key recorded when new.
after_is_duplicate_reading(st, node_id, reading_type, timestamp) ==
    LET s1 == dedup_periodic_cleanup(st)
        key == DedupKey(node_id, reading_type, timestamp)
    IN IF key \in DOMAIN s1.dedup_cache THEN s1
       ELSE [s1 EXCEPT !.dedup_cache = Put(@, key, st.now)]

\* --------------------------------------------------------- batched writer
\* flush_clickhouse_buffer, run to completion by one thread; st.insert_ok is
\* whether clickhouse_client.insert succeeds.
flush_clickhouse_buffer(st) ==
    IF st.clickhouse_buffer = <<>> THEN st
    ELSE LET rows_to_insert == st.clickhouse_buffer
             s1 == [st EXCEPT !.clickhouse_buffer = <<>>]
             s2 == [s1 EXCEPT !.inserts =
                       Append(@, [rows |-> rows_to_insert, ok |-> st.insert_ok])]
         IN IF st.insert_ok
            THEN [s2 EXCEPT !.clickhouse_store = @ \o rows_to_insert]
            ELSE [s2 EXCEPT !.clickhouse_buffer = rows_to_insert \o @]

\* Mutation: the inline flush waits for one row more than the batch size.
add_to_clickhouse_buffer_late(st, row) ==
    LET s1 == [st EXCEPT !.clickhouse_buffer = Append(@, row)]
        buffer_size == Len(s1.clickhouse_buffer)
    IN IF buffer_size > CLICKHOUSE_BATCH_SIZE THEN flush_clickhouse_buffer(s1) ELSE s1

\* with clickhouse_buffer_lock: append, buffer_size = len; then flush inline
add_to_clickhouse_buffer(st, row) ==
    LET s1 == [st EXCEPT !.clickhouse_buffer = Append(@, row)]
        buffer_size == Len(s1.clickhouse_buffer)
    IN IF buffer_size >= CLICKHOUSE_BATCH_SIZE THEN flush_clickhouse_buffer(s1) ELSE s1

\* ------------------------------------------------------------- cache files
\* A write that fails (st.disk_ok is false) is swallowed: "except Exception: pass".
save_cache(st, region) ==
    IF st.disk_ok THEN [st EXCEPT !.disk_positions[region] = st.positions[region]] ELSE st

\* Mutation: the pending file is never rewritten.
save_pending_telemetry_skipped(st, region) == st

save_pending_telemetry(st, region) ==
    IF st.disk_ok THEN [st EXCEPT !.disk_pending[region] = st.pending_telemetry[region]]
    ELSE st

load_cache(st, region) == st.disk_positions[region]

\* Mutation: the pending filter has no age limit.
PendingValid_ageless(reading, current_time) ==
    (reading[4] - current_time) <= FUTURE_TIMESTAMP_TOLERANCE

\* The filter of _load_pending_telemetry and of the drain.
PendingValid(reading, current_time) ==
    /\ (current_time - reading[4]) <= PENDING_TELEMETRY_MAX_AGE
    /\ (reading[4] - current_time) <= FUTURE_TIMESTAMP_TOLERANCE

RECURSIVE FilterValid_reversed(_, _)
\* Mutation: the kept readings come out in reverse order.
FilterValid_reversed(readings, current_time) ==
    IF readings = <<>> THEN <<>>
    ELSE IF PendingValid(Head(readings), current_time)
         THEN FilterValid_reversed(Tail(readings), current_time) \o <<Head(readings)>>
         ELSE FilterValid_reversed(Tail(readings), current_time)

RECURSIVE FilterValid(_, _)
\* valid = [(rt, v, u, ts) for rt, v, u, ts in readings if ...]
FilterValid(readings, current_time) ==
    IF readings = <<>> THEN <<>>
    ELSE IF PendingValid(Head(readings), current_time)
         THEN <<Head(readings)>> \o FilterValid(Tail(readings), current_time)
         ELSE FilterValid(Tail(readings), current_time)

load_pending_telemetry(st, region) ==
    LET pending == st.disk_pending[region]
        keep == {n \in DOMAIN pending : FilterValid(pending[n], st.now) # <<>>}
    IN [n \in keep |-> FilterValid(pending[n], st.now)]

\* ------------------------------------------------------ process_reading
AnalyticalRow(region, node_id, reading_type, value, unit, timestamp, position) ==
    [timestamp |-> timestamp, device_id |-> node_id, network_source |-> region,
     reading_type |-> reading_type, value |-> value, unit |-> unit,
     latitude |-> position.lat, longitude |-> position.lon,
     altitude |-> position.alt,
     board_model |-> IF position.hardware = NoneStr THEN "" ELSE position.hardware,
     node_name |-> position.name]

\* Mutation: one save counter is advanced for all sources.
track_last_env_time_one_counter(st, region, node_id, timestamp) ==
    LET position == st.positions[region][node_id]
    IN IF position.last_env_time = NoTime \/ timestamp > position.last_env_time
       THEN LET s1 == [st EXCEPT !.positions[region][node_id].last_env_time = timestamp,
                                 !.save_counter = [r \in DOMAIN @ |-> @[r] + 1]]
            IN IF s1.save_counter[region] >= SAVE_EVERY
               THEN [save_cache(s1, region) EXCEPT !.save_counter = [r \in DOMAIN @ |-> 0]]
               ELSE s1
       ELSE st

\* Mutation: the amortised save waits for one update more.
track_last_env_time_late(st, region, node_id, timestamp) ==
    LET position == st.positions[region][node_id]
    IN IF position.last_env_time = NoTime \/ timestamp > position.last_env_time
       THEN LET s1 == [st EXCEPT !.positions[region][node_id].last_env_time = timestamp,
                                 !.save_counter[region] = @ + 1]
            IN IF s1.save_counter[region] > SAVE_EVERY
               THEN [save_cache(s1, region) EXCEPT !.save_counter[region] = 0]
               ELSE s1
       ELSE st

\* Mutation: last_env_time follows every committed reading, older ones too.
track_last_env_time_always(st, region, node_id, timestamp) ==
    LET s1 == [st EXCEPT !.positions[region][node_id].last_env_time = timestamp,
                         !.save_counter[region] = @ + 1]
    IN IF s1.save_counter[region] >= SAVE_EVERY
       THEN [save_cache(s1, region) EXCEPT !.save_counter[region] = 0]
       ELSE s1

\* Lines 360-370: the monotonic update of last_env_time and the amortised save.
track_last_env_time(st, region, node_id, timestamp) ==
    LET position == st.positions[region][node_id]
    IN IF position.last_env_time = NoTime \/ timestamp > position.last_env_time
       THEN LET s1 == [st EXCEPT !.positions[region][node_id].last_env_time = timestamp,
                                 !.save_counter[region] = @ + 1]
            IN IF s1.save_counter[region] >= SAVE_EVERY
               THEN [save_cache(s1, region) EXCEPT !.save_counter[region] = 0]
               ELSE s1
       ELSE st

\* process_reading past the dedup check: queue the reading while the node has
\* no NodeRecord, else commit it.
process_new_reading(s1, region, node_id, reading_type, value, unit, timestamp, via) ==
    IF node_id \notin DOMAIN s1.positions[region]
    THEN LET queue == IF node_id \in DOMAIN s1.pending_telemetry[region]
                      THEN s1.pending_telemetry[region][node_id] ELSE <<>>
             s2 == [s1 EXCEPT !.pending_telemetry[region] =
                       Put(@, node_id, Append(queue, <<reading_type, value, unit, timestamp>>))]
         IN save_pending_telemetry(s2, region)
    ELSE IF s1.positions[region][node_id].lat = NoneNum
            \/ s1.positions[region][node_id].lon = NoneNum
    THEN s1
    ELSE LET s2 == track_last_env_time(s1, region, node_id, timestamp)
             row == AnalyticalRow(region, node_id, reading_type, value, unit,
                                  timestamp, s2.positions[region][node_id])
             s3 == add_to_clickhouse_buffer(s2, row)
         IN [s3 EXCEPT !.appended =
                Append(@, [row |-> row, at |-> s1.now, via |-> via, run |-> s1.run])]

process_reading(st, region, node_id, reading_type, value, unit, timestamp, via) ==
    LET s1 == after_is_duplicate_reading(st, node_id, reading_type, timestamp)
    IN IF is_duplicate_reading(st, node_id, reading_type, timestamp) THEN s1
       ELSE process_new_reading(s1, region, node_id, reading_type, value, unit, timestamp, via)

\* ------------------------------------------------------ _handle_position
RECURSIVE process_pending_backwards(_, _, _, _)
\* Mutation: the drain walks the valid readings from the last to the first.
process_pending_backwards(st, region, node_id, valid) ==
    IF valid = <<>> THEN st
    ELSE LET last == valid[Len(valid)]
         IN process_pending_backwards(
                process_reading(st, region, node_id, last[1], last[2], last[3], last[4],
                                "drain"),
                region, node_id, SubSeq(valid, 1, Len(valid) - 1))

RECURSIVE process_pending(_, _, _, _)
\* for reading_type, value, unit, ts in valid: self.process_reading(...)
process_pending(st, region, node_id, valid) ==
    IF valid = <<>> THEN st
    ELSE process_pending(
             process_reading(st, region, node_id, Head(valid)[1], Head(valid)[2],
                             Head(valid)[3], Head(valid)[4], "drain"),
             region, node_id, Tail(valid))

PositionLat(pos) == IF pos.latitude_i # 0 THEN pos.latitude_i ELSE NoneNum
PositionLon(pos) == IF pos.longitude_i # 0 THEN pos.longitude_i ELSE NoneNum
PositionAlt(pos) == IF pos.altitude # 0 THEN pos.altitude ELSE NoneNum

\* Mutation: a position is rejected only when both coordinates are missing.
position_is_valid_either(pos) == PositionLat(pos) # NoneNum \/ PositionLon(pos) # NoneNum

\* if not lat or not lon: return
position_is_valid(pos) == PositionLat(pos) # NoneNum /\ PositionLon(pos) # NoneNum

\* Mutation: the rewritten NodeRecord does not carry last_env_time over.
update_position_forgetful(st, region, node_id, pos) ==
    LET lat == PositionLat(pos)
        lon == PositionLon(pos)
        alt == PositionAlt(pos)
        is_new == node_id \notin DOMAIN st.positions[region]
        existing == IF is_new
                    THEN [lat |-> NoneNum, lon |-> NoneNum, alt |-> NoneNum,
                          hardware |-> NoneStr, name |-> NoneStr, last_env_time |-> NoTime]
                    ELSE st.positions[region][node_id]
        has_info == node_id \in DOMAIN st.pending_node_info[region]
        pending_info == IF has_info THEN st.pending_node_info[region][node_id]
                        ELSE [hardware |-> NoneStr, name |-> NoneStr]
        existing_hw == IF existing.hardware # NoneStr THEN existing.hardware
                       ELSE pending_info.hardware
        existing_name == IF existing.name # NoneStr THEN existing.name
                         ELSE pending_info.name
        s1 == IF has_info THEN [st EXCEPT !.pending_node_info[region] = Del(@, node_id)]
              ELSE st
        position_changed == /\ ~is_new
                            /\ (existing.lat # lat \/ existing.lon # lon \/ existing.alt # alt)
        new_entry == [lat |-> lat, lon |-> lon, alt |-> alt,
                      hardware |-> existing_hw, name |-> existing_name,
                      last_env_time |-> NoTime]
    IN IF is_new \/ position_changed
       THEN save_cache([s1 EXCEPT !.positions[region] = Put(@, node_id, new_entry)], region)
       ELSE s1

\* Mutation: the pending node info is consumed without being merged.
update_position_unmerged(st, region, node_id, pos) ==
    LET lat == PositionLat(pos)
        lon == PositionLon(pos)
        alt == PositionAlt(pos)
        is_new == node_id \notin DOMAIN st.positions[region]
        existing == IF is_new
                    THEN [lat |-> NoneNum, lon |-> NoneNum, alt |-> NoneNum,
                          hardware |-> NoneStr, name |-> NoneStr, last_env_time |-> NoTime]
                    ELSE st.positions[region][node_id]
        has_info == node_id \in DOMAIN st.pending_node_info[region]
        pending_info == IF has_info THEN st.pending_node_info[region][node_id]
                        ELSE [hardware |-> NoneStr, name |-> NoneStr]
        existing_hw == existing.hardware
        existing_name == existing.name
        s1 == IF has_info THEN [st EXCEPT !.pending_node_info[region] = Del(@, node_id)]
              ELSE st
        position_changed == /\ ~is_new
                            /\ (existing.lat # lat \/ existing.lon # lon \/ existing.alt # alt)
        new_entry == [lat |-> lat, lon |-> lon, alt |-> alt,
                      hardware |-> existing_hw, name |-> existing_name,
                      last_env_time |-> existing.last_env_time]
    IN IF is_new \/ position_changed
       THEN save_cache([s1 EXCEPT !.positions[region] = Put(@, node_id, new_entry)], region)
       ELSE s1

\* Mutation: the pending node info is merged and left in place.
update_position_unpopped(st, region, node_id, pos) ==
    LET lat == PositionLat(pos)
        lon == PositionLon(pos)
        alt == PositionAlt(pos)
        is_new == node_id \notin DOMAIN st.positions[region]
        existing == IF is_new
                    THEN [lat |-> NoneNum, lon |-> NoneNum, alt |-> NoneNum,
                          hardware |-> NoneStr, name |-> NoneStr, last_env_time |-> NoTime]
                    ELSE st.positions[region][node_id]
        has_info == node_id \in DOMAIN st.pending_node_info[region]
        pending_info == IF has_info THEN st.pending_node_info[region][node_id]
                        ELSE [hardware |-> NoneStr, name |-> NoneStr]
        existing_hw == IF existing.hardware # NoneStr THEN existing.hardware
                       ELSE pending_info.hardware
        existing_name == IF existing.name # NoneStr THEN existing.name
                         ELSE pending_info.name
        s1 == st
        position_changed == /\ ~is_new
                            /\ (existing.lat # lat \/ existing.lon # lon \/ existing.alt # alt)
        new_entry == [lat |-> lat, lon |-> lon, alt |-> alt,
                      hardware |-> existing_hw, name |-> existing_name,
                      last_env_time |-> existing.last_env_time]
    IN IF is_new \/ position_changed
       THEN save_cache([s1 EXCEPT !.positions[region] = Put(@, node_id, new_entry)], region)
       ELSE s1

\* Lines 445-476: merge pending node info, classify, write the NodeRecord.
update_position(st, region, node_id, pos) ==
    LET lat == PositionLat(pos)
        lon == PositionLon(pos)
        alt == PositionAlt(pos)
        is_new == node_id \notin DOMAIN st.positions[region]
        existing == IF is_new
                    THEN [lat |-> NoneNum, lon |-> NoneNum, alt |-> NoneNum,
                          hardware |-> NoneStr, name |-> NoneStr, last_env_time |-> NoTime]
                    ELSE st.positions[region][node_id]
        has_info == node_id \in DOMAIN st.pending_node_info[region]
        pending_info == IF has_info THEN st.pending_node_info[region][node_id]
                        ELSE [hardware |-> NoneStr, name |-> NoneStr]
        existing_hw == IF existing.hardware # NoneStr THEN existing.hardware
                       ELSE pending_info.hardware
        existing_name == IF existing.name # NoneStr THEN existing.name
                         ELSE pending_info.name
        s1 == IF has_info THEN [st EXCEPT !.pending_node_info[region] = Del(@, node_id)]
              ELSE st
        position_changed == /\ ~is_new
                            /\ (existing.lat # lat \/ existing.lon # lon \/ existing.alt # alt)
        new_entry == [lat |-> lat, lon |-> lon, alt |-> alt,
                      hardware |-> existing_hw, name |-> existing_name,
                      last_env_time |-> existing.last_env_time]
    IN IF is_new \/ position_changed
       THEN save_cache([s1 EXCEPT !.positions[region] = Put(@, node_id, new_entry)], region)
       ELSE s1

\* Mutation: the drained queue is left in the pending buffer.
drain_pending_telemetry_kept(st, region, node_id) ==
    IF node_id \in DOMAIN st.pending_telemetry[region]
    THEN LET pending == st.pending_telemetry[region][node_id]
             valid == FilterValid(pending, st.now)
             s1 == IF valid # <<>>
                   THEN save_cache(process_pending(st, region, node_id, valid), region)
                   ELSE st
         IN save_pending_telemetry(s1, region)
    ELSE st

\* Mutation: the queue is removed only when some reading of it was valid.
drain_pending_telemetry_valid_only(st, region, node_id) ==
    IF node_id \in DOMAIN st.pending_telemetry[region]
    THEN LET pending == st.pending_telemetry[region][node_id]
             valid == FilterValid(pending, st.now)
         IN IF valid # <<>>
            THEN LET s1 == save_cache(process_pending(st, region, node_id, valid), region)
                     s2 == [s1 EXCEPT !.pending_telemetry[region] = Del(@, node_id)]
                 IN save_pending_telemetry(s2, region)
            ELSE st
    ELSE st

\* Lines 484-506: drain the node's pending telemetry.
drain_pending_telemetry(st, region, node_id) ==
    IF node_id \in DOMAIN st.pending_telemetry[region]
    THEN LET pending == st.pending_telemetry[region][node_id]
             valid == FilterValid(pending, st.now)
             dropped == {[region |-> region, node_id |-> node_id, reading |-> pending[i]] :
                            i \in {i \in 1..Len(pending) : ~PendingValid(pending[i], st.now)}}
             s1 == IF valid # <<>>
                   THEN save_cache(process_pending(st, region, node_id, valid), region)
                   ELSE st
             s2 == [s1 EXCEPT !.pending_telemetry[region] = Del(@, node_id),
                              !.expired = @ \cup dropped]
         IN save_pending_telemetry(s2, region)
    ELSE st

\* Mutation: an unchanged position returns before the drain.
handle_position_lazy(st, region, node_id, pos) ==
    IF ~position_is_valid(pos) THEN st
    ELSE LET s1 == update_position([st EXCEPT !.seen_position = @ \cup {<<region, node_id>>}],
                                   region, node_id, pos)
         IN IF s1.positions = st.positions THEN s1
            ELSE drain_pending_telemetry(s1, region, node_id)

handle_position(st, region, node_id, pos) ==
    IF ~position_is_valid(pos) THEN st
    ELSE drain_pending_telemetry(
             update_position([st EXCEPT !.seen_position = @ \cup {<<region, node_id>>}],
                             region, node_id, pos),
             region, node_id)

\* ------------------------------------------------------ _handle_nodeinfo
HardwareModelName(hw_model) ==
    IF hw_model = 0 THEN NoneStr
    ELSE IF hw_model = 43 THEN "HELTEC_V3" ELSE "UNKNOWN"

\* Mutation: the name and the hardware of the record are assigned whether or
\* not the event carries them.
handle_nodeinfo_overwriting(st, region, node_id, user) ==
    LET name == IF user.long_name # "" THEN user.long_name ELSE NoneStr
        hw_model == HardwareModelName(user.hw_model)
    IN IF node_id \in DOMAIN st.positions[region]
       THEN LET pos == st.positions[region][node_id]
                pos2 == [pos EXCEPT !.name = name, !.hardware = hw_model]
                s1 == [st EXCEPT !.positions[region][node_id] = pos2]
            IN IF name # NoneStr \/ hw_model # NoneStr THEN save_cache(s1, region) ELSE s1
       ELSE LET old == IF node_id \in DOMAIN st.pending_node_info[region]
                       THEN st.pending_node_info[region][node_id]
                       ELSE [hardware |-> NoneStr, name |-> NoneStr]
                info == [name |-> IF name # NoneStr THEN name ELSE old.name,
                         hardware |-> IF hw_model # NoneStr THEN hw_model ELSE old.hardware]
            IN [st EXCEPT !.pending_node_info[region] = Put(@, node_id, info)]

\* Mutation: node info changes the record in memory only.
handle_nodeinfo_unsaved(st, region, node_id, user) ==
    LET name == IF user.long_name # "" THEN user.long_name ELSE NoneStr
        hw_model == HardwareModelName(user.hw_model)
    IN IF node_id \in DOMAIN st.positions[region]
       THEN LET pos == st.positions[region][node_id]
                pos2 == [pos EXCEPT !.name = IF name # NoneStr THEN name ELSE @,
                                    !.hardware = IF hw_model # NoneStr THEN hw_model ELSE @]
            IN [st EXCEPT !.positions[region][node_id] = pos2]
       ELSE LET old == IF node_id \in DOMAIN st.pending_node_info[region]
                       THEN st.pending_node_info[region][node_id]
                       ELSE [hardware |-> NoneStr, name |-> NoneStr]
                info == [name |-> IF name # NoneStr THEN name ELSE old.name,
                         hardware |-> IF hw_model # NoneStr THEN hw_model ELSE old.hardware]
            IN [st EXCEPT !.pending_node_info[region] = Put(@, node_id, info)]

handle_nodeinfo(st, region, node_id, user) ==
    LET name == IF user.long_name # "" THEN user.long_name ELSE NoneStr
        hw_model == HardwareModelName(user.hw_model)
    IN IF node_id \in DOMAIN st.positions[region]
       THEN LET pos == st.positions[region][node_id]
                pos2 == [pos EXCEPT !.name = IF name # NoneStr THEN name ELSE @,
                                    !.hardware = IF hw_model # NoneStr THEN hw_model ELSE @]
                s1 == [st EXCEPT !.positions[region][node_id] = pos2]
            IN IF name # NoneStr \/ hw_model # NoneStr THEN save_cache(s1, region) ELSE s1
       ELSE LET old == IF node_id \in DOMAIN st.pending_node_info[region]
                       THEN st.pending_node_info[region][node_id]
                       ELSE [hardware |-> NoneStr, name |-> NoneStr]
                info == [name |-> IF name # NoneStr THEN name ELSE old.name,
                         hardware |-> IF hw_model # NoneStr THEN hw_model ELSE old.hardware]
            IN [st EXCEPT !.pending_node_info[region] = Put(@, node_id, info)]

\* ------------------------------------------------------ _handle_telemetry
should_publish_telemetry(region) == TRUE

\* Mutation: the tolerance is one second too generous.
future_timestamp_lenient(st, tel) == tel.time - st.now > FUTURE_TIMESTAMP_TOLERANCE + 1

\* Mutation: the tolerance itself is rejected.
future_timestamp_inclusive(st, tel) == tel.time - st.now >= FUTURE_TIMESTAMP_TOLERANCE

\* if time_delta > FUTURE_TIMESTAMP_TOLERANCE
future_timestamp(st, tel) == tel.time - st.now > FUTURE_TIMESTAMP_TOLERANCE

note_delivery(st, region, node_id, reading_type, timestamp) ==
    LET key == DedupKey(node_id, reading_type, timestamp)
    IN [st EXCEPT !.delivered =
           Put(@, key, IF key \in DOMAIN st.delivered
                       THEN Append(st.delivered[key], region) ELSE <<region>>)]

\* Mutation: a metric is dispatched whatever its value.
deliver_reading_unfiltered(st, region, node_id, reading_type, value, unit, timestamp) ==
    process_reading(note_delivery(st, region, node_id, reading_type, timestamp),
                    region, node_id, reading_type, value, unit, timestamp, "telemetry")

deliver_reading(st, region, node_id, reading_type, value, unit, timestamp) ==
    IF value # 0
    THEN process_reading(note_delivery(st, region, node_id, reading_type, timestamp),
                         region, node_id, reading_type, value, unit, timestamp, "telemetry")
    ELSE st

handle_telemetry(st, region, node_id, tel) ==
    IF ~(tel.has_env /\ should_publish_telemetry(region)) THEN st
    ELSE IF tel.time = 0 THEN st
    ELSE IF future_timestamp(st, tel)
    THEN [st EXCEPT !.ft_log = Append(@, [node_id |-> node_id, region |-> region,
                                          ahead |-> tel.time - st.now])]
    ELSE LET s1 == deliver_reading(st, region, node_id, "temperature",
                                   tel.temperature, "C", tel.time)
             s2 == deliver_reading(s1, region, node_id, "humidity",
                                   tel.relative_humidity, "%", tel.time)
         IN deliver_reading(s2, region, node_id, "pressure",
                            tel.barometric_pressure, "hPa", tel.time)

\* ------------------------------------------------------------ the inputs
Position(latitude_i, longitude_i, altitude) ==
    [latitude_i |-> latitude_i, longitude_i |-> longitude_i, altitude |-> altitude]
User(long_name, hw_model) == [long_name |-> long_name, hw_model |-> hw_model]
Telemetry(has_env, time, temperature, relative_humidity, barometric_pressure) ==
    [has_env |-> has_env, time |-> time, temperature |-> temperature,
     relative_humidity |-> relative_humidity, barometric_pressure |-> barometric_pressure]

P1 == Position(400000000, 0 - 740000000, 0)
P2 == Position(401000000, 0 - 741000000, 10)
NoLat == Position(0, 0 - 740000000, 0)
NoLon == Position(400000000, 0, 10)

\* Environment telemetry carrying a temperature of 18.5 C, stamped t ...
StampedAt(t) == Telemetry(TRUE, t, 185, 0, 0)
\* ... or stamped d seconds from now.
TempAt(d) == StampedAt(now + d)
NoTimestamp == Telemetry(TRUE, 0, 185, 0, 0)
NoEnvironment == Telemetry(FALSE, now, 0, 0, 0)
OnTime == FUTURE_TIMESTAMP_TOLERANCE
TooEarly == FUTURE_TIMESTAMP_TOLERANCE + 1
WeekOld == 0 - PENDING_TELEMETRY_MAX_AGE

\* ------------------------------------------------------------ the machine
\* The source clients deliver messages from loop_start() until loop_stop().
ClientsRunning == phase \in {"starting", "loop", "sd_saved", "sd_flushed"}

\* The regions of the configuration, in its order.
RegionOrder == <<"US", "EU_868">>

\* The connect loop is over: every region is enabled and has its client.
Started ==
    [todo |-> <<>>, enabled |-> [r \in Sources |-> TRUE],
     reachable |-> [r \in Sources |-> TRUE], clients |-> Sources, failed |-> {}]

RECURSIVE SumOver(_, _)
\* the total length of the sequences f[k], k in keys
SumOver(f, keys) ==
    IF keys = {} THEN 0
    ELSE LET k == CHOOSE x \in keys : TRUE IN Len(f[k]) + SumOver(f, keys \ {k})

Deliveries(s) == SumOver(s.delivered, DOMAIN s.delivered)

WithinBounds(s) ==
    /\ Deliveries(s) <= MaxDeliveries
    /\ Len(s.ft_log) <= MaxFtLog

\* clickhouse_client.insert succeeds or raises; the outcome is only read by a
\* handler that can bring the buffer to the batch size with n more rows.
InsertOutcomes(n) ==
    IF Len(clickhouse_buffer) + n >= CLICKHOUSE_BATCH_SIZE THEN BOOLEAN ELSE {TRUE}

QueueLen(region, node_id) ==
    IF node_id \in DOMAIN pending_telemetry[region]
    THEN Len(pending_telemetry[region][node_id]) ELSE 0

\* The threads that use the writer: the callback thread of each source and the
\* flush timer, which main() arms once the client is connected.
WriterThreads == Sources \cup {"timer"}
WriterStart ==
    [t \in WriterThreads |-> [pc |-> IF t = "timer" THEN "armed" ELSE "idle", batch |-> <<>>]]

\* No recorded stream is being fed.
NoReplay ==
    [script |-> <<>>, pass |-> 0, next |-> 0, rows |-> 0, rejected |-> 0, disk_ok |-> TRUE]

\* A callback thread between messages.
Idle == [pc |-> "idle", node_id |-> "", reading_type |-> "", value |-> 0, unit |-> "",
         timestamp |-> 0, current_time |-> 0]

Init ==
    /\ now = T0
    /\ phase = "loop"
    /\ positions = [r \in Sources |-> EmptyDict]
    /\ pending_telemetry = [r \in Sources |-> EmptyDict]
    /\ pending_node_info = [r \in Sources |-> EmptyDict]
    /\ dedup_cache = EmptyDict
    /\ dedup_last_cleanup = T0
    /\ save_counter = [r \in Sources |-> 0]
    /\ clickhouse_buffer = <<>>
    /\ clickhouse_store = <<>>
    /\ disk_positions = [r \in Sources |-> EmptyDict]
    /\ disk_pending = [r \in Sources |-> EmptyDict]
    /\ ft_log = <<>>
    /\ appended = <<>>
    /\ expired = {}
    /\ delivered = EmptyDict
    /\ seen_position = {}
    /\ inserts = <<>>
    /\ callback = [r \in Sources |-> Idle]
    /\ writer = WriterStart
    /\ ticks = 0
    /\ restarts = 0
    /\ replay = NoReplay
    /\ startup = Started

Tick ==
    /\ ticks < MaxTicks
    /\ \E d \in Jumps : now' = now + d
    /\ ticks' = ticks + 1
    /\ UNCHANGED <<phase, positions, pending_telemetry, pending_node_info, dedup_cache,
                   dedup_last_cleanup, save_counter, clickhouse_buffer, clickhouse_store,
                   disk_positions, disk_pending, ft_log, appended, expired, delivered,
                   seen_position, inserts, writer, callback, restarts, replay, startup>>

\* on_message with a POSITION_APP packet
PositionEvent(region, node_id, pos) ==
    /\ ClientsRunning
    /\ region \in startup.clients
    /\ \E ok \in InsertOutcomes(QueueLen(region, node_id)) :
          LET s == handle_position([State EXCEPT !.insert_ok = ok], region, node_id, pos)
          IN WithinBounds(s) /\ SetState(s)
    /\ UNCHANGED <<now, phase, callback, writer, ticks, restarts, replay, startup>>

\* on_message with a NODEINFO_APP packet
NodeInfoEvent(region, node_id, user) ==
    /\ ClientsRunning
    /\ region \in startup.clients
    /\ SetState(handle_nodeinfo(State, region, node_id, user))
    /\ UNCHANGED <<now, phase, callback, writer, ticks, restarts, replay, startup>>

\* on_message with a TELEMETRY_APP packet
TelemetryEvent(region, node_id, tel) ==
    /\ ClientsRunning
    /\ region \in startup.clients
    /\ \E ok \in InsertOutcomes(3) :
          LET s == handle_telemetry([State EXCEPT !.insert_ok = ok], region, node_id, tel)
          IN WithinBounds(s) /\ SetState(s)
    /\ UNCHANGED <<now, phase, callback, writer, ticks, restarts, replay, startup>>

RECURSIVE save_all_caches_pending_only(_, _)
\* Mutation: the shutdown rewrites the pending files only.
save_all_caches_pending_only(st, regions) ==
    IF regions = {} THEN st
    ELSE LET region == CHOOSE r \in regions : TRUE
         IN save_all_caches_pending_only(save_pending_telemetry(st, region),
                                         regions \ {region})

RECURSIVE save_all_caches(_, _)
\* shutdown, lines 730-737
save_all_caches(st, regions) ==
    IF regions = {} THEN st
    ELSE LET region == CHOOSE r \in regions : TRUE
             s1 == IF DOMAIN st.positions[region] # {} THEN save_cache(st, region) ELSE st
         IN save_all_caches(save_pending_telemetry(s1, region), regions \ {region})

ShutdownSave ==
    /\ phase = "loop"
    /\ restarts < MaxRestarts
    /\ SetState(save_all_caches(State, Sources))
    /\ phase' = "sd_saved"
    /\ UNCHANGED <<now, callback, writer, ticks, restarts, replay, startup>>

\* shutdown, lines 739-741
ShutdownFlush ==
    /\ phase = "sd_saved"
    /\ \E ok \in BOOLEAN : SetState(flush_clickhouse_buffer([State EXCEPT !.insert_ok = ok]))
    /\ phase' = "sd_flushed"
    /\ UNCHANGED <<now, callback, writer, ticks, restarts, replay, startup>>

\* shutdown, lines 743-745. shutdown() then returns into the statistics loop of
\* run(): in phase "stopped" the process is alive with its clients stopped.
ShutdownDisconnect ==
    /\ phase = "sd_flushed"
    /\ phase' = "stopped"
    /\ UNCHANGED <<now, positions, pending_telemetry, pending_node_info, dedup_cache,
                   dedup_last_cleanup, save_counter, clickhouse_buffer, clickhouse_store,
                   disk_positions, disk_pending, ft_log, appended, expired, delivered,
                   seen_position, inserts, writer, callback, ticks, restarts, replay, startup>>

\* The process is ended from outside and a new one starts: __init__ and the
\* cache loading of run().
Run ==
    /\ phase = "stopped"
    /\ phase' = "loop"
    /\ restarts' = restarts + 1
    /\ positions' = [r \in Sources |-> load_cache(State, r)]
    /\ pending_telemetry' = [r \in Sources |-> load_pending_telemetry(State, r)]
    /\ pending_node_info' = [r \in Sources |-> EmptyDict]
    /\ dedup_cache' = EmptyDict
    /\ dedup_last_cleanup' = now
    /\ save_counter' = [r \in Sources |-> 0]
    /\ clickhouse_buffer' = <<>>
    /\ UNCHANGED <<now, clickhouse_store, disk_positions, disk_pending, ft_log, appended,
                   expired, delivered, seen_position, inserts, callback, writer, ticks, replay, startup>>

\* ------------------------------------------------ the callbacks as threads
\* Each source client runs its callbacks on its own network thread, and
\* is_duplicate_reading takes no lock: a thread can be suspended between the
\* membership test and the insertion. CallbackBegin is the callback up to and
\* including the periodic cleanup, for telemetry that passes the checks of
\* _handle_telemetry and carries a temperature only.
CallbackBegin(region, node_id, tel) ==
    /\ ClientsRunning
    /\ callback[region].pc = "idle"
    /\ tel.has_env /\ tel.time # 0 /\ ~future_timestamp(State, tel)
    /\ tel.temperature # 0 /\ tel.relative_humidity = 0 /\ tel.barometric_pressure = 0
    /\ LET s == dedup_periodic_cleanup(
                    note_delivery(State, region, node_id, "temperature", tel.time))
       IN WithinBounds(s) /\ SetState(s)
    /\ callback' = [callback EXCEPT ![region] =
                       [pc |-> "check", node_id |-> node_id, reading_type |-> "temperature",
                        value |-> tel.temperature, unit |-> "C", timestamp |-> tel.time,
                        current_time |-> now]]
    /\ UNCHANGED <<now, phase, writer, ticks, restarts, replay, startup>>

\* if key in dedup_cache: return True
CallbackCheck(region) ==
    LET c == callback[region]
    IN /\ c.pc = "check"
       /\ callback' = [callback EXCEPT ![region] =
              IF DedupKey(c.node_id, c.reading_type, c.timestamp) \in DOMAIN dedup_cache
              THEN Idle ELSE [c EXCEPT !.pc = "insert"]]
       /\ UNCHANGED <<now, phase, positions, pending_telemetry, pending_node_info,
                      dedup_cache, dedup_last_cleanup, save_counter, clickhouse_buffer,
                      clickhouse_store, disk_positions, disk_pending, ft_log, appended,
                      expired, delivered, seen_position, inserts, writer, ticks,
                      restarts, replay, startup>>

\* dedup_cache[key] = current_time; return False
CallbackInsert(region) ==
    LET c == callback[region]
    IN /\ c.pc = "insert"
       /\ dedup_cache' = Put(dedup_cache, DedupKey(c.node_id, c.reading_type, c.timestamp),
                             c.current_time)
       /\ callback' = [callback EXCEPT ![region].pc = "passed"]
       /\ UNCHANGED <<now, phase, positions, pending_telemetry, pending_node_info,
                      dedup_last_cleanup, save_counter, clickhouse_buffer,
                      clickhouse_store, disk_positions, disk_pending, ft_log, appended,
                      expired, delivered, seen_position, inserts, writer, ticks,
                      restarts, replay, startup>>

\* The rest of publish_to_wesense for a reading that passed the check.
CallbackCommit(region) ==
    LET c == callback[region]
    IN /\ c.pc = "passed"
       /\ \E ok \in InsertOutcomes(1) :
             SetState(process_new_reading([State EXCEPT !.insert_ok = ok], region, c.node_id,
                                          c.reading_type, c.value, c.unit, c.timestamp,
                                          "telemetry"))
       /\ callback' = [callback EXCEPT ![region] = Idle]
       /\ UNCHANGED <<now, phase, writer, ticks, restarts, replay, startup>>

\* Two source threads delivering the same readings, their steps interleaved.
NextRace ==
    \/ \E region \in Sources : PositionEvent(region, "!000000a1", P1)
    \/ \E region \in Sources : \E t \in {T0, T0 - 60} :
          CallbackBegin(region, "!000000a1", StampedAt(t))
    \/ \E region \in Sources : CallbackCheck(region)
    \/ \E region \in Sources : CallbackInsert(region)
    \/ \E region \in Sources : CallbackCommit(region)

SpecRace == Init /\ [][NextRace]_vars

\* ------------------------------------------------ the writer as threads
\* add_to_clickhouse_buffer and flush_clickhouse_buffer hold
\* clickhouse_buffer_lock only around the append and around the swap and the
\* put-back; the insert runs outside the lock. Each action below is one
\* critical section or the insert of one thread.
FailedInserts == Len(SelectSeq(inserts, LAMBDA e : ~e.ok))

\* Where a thread goes when its flush_clickhouse_buffer returns: periodic_flush
\* goes on to schedule_clickhouse_flush, a callback returns.
AfterFlush(t) == IF t = "timer" THEN "rearm" ELSE "idle"

\* The row of the k-th reading committed through the writer.
WriterRow(region, k) ==
    AnalyticalRow(region, "!000000a1", "temperature", 185, "C", T0 + k,
                  [lat |-> PositionLat(P1), lon |-> PositionLon(P1), alt |-> PositionAlt(P1),
                   hardware |-> NoneStr, name |-> NoneStr, last_env_time |-> NoTime])

WriterUnchanged ==
    UNCHANGED <<now, phase, positions, pending_telemetry, pending_node_info, dedup_cache,
                dedup_last_cleanup, save_counter, disk_positions, disk_pending, ft_log,
                expired, delivered, seen_position, callback, ticks, restarts, replay, startup>>

\* add_to_clickhouse_buffer: with the lock, append and read the length; then
\* decide whether to flush inline.
WriterAppend(t) ==
    /\ t \in Sources
    /\ writer[t].pc = "idle"
    /\ Len(appended) < MaxAppends
    /\ LET row == WriterRow(t, Len(appended) + 1)
           buffer_size == Len(clickhouse_buffer) + 1
       IN /\ clickhouse_buffer' = Append(clickhouse_buffer, row)
          /\ appended' = Append(appended, [row |-> row, at |-> now, via |-> "telemetry",
                                           run |-> restarts])
          /\ writer' = [writer EXCEPT ![t].pc =
                           IF buffer_size >= CLICKHOUSE_BATCH_SIZE THEN "flush" ELSE "idle"]
    /\ UNCHANGED <<clickhouse_store, inserts, replay, startup>>
    /\ WriterUnchanged

\* Mutation: the swap copies the buffer and forgets to empty it.
FlushSwap_copy(t) ==
    /\ writer[t].pc = "flush"
    /\ IF clickhouse_buffer = <<>>
       THEN writer' = [writer EXCEPT ![t].pc = AfterFlush(t)]
       ELSE writer' = [writer EXCEPT ![t] = [pc |-> "insert", batch |-> clickhouse_buffer]]
    /\ UNCHANGED <<clickhouse_buffer, clickhouse_store, inserts, appended, replay, startup>>
    /\ WriterUnchanged

\* flush_clickhouse_buffer, first critical section: return when the buffer is
\* empty, else take all of it and leave an empty buffer.
FlushSwap(t) ==
    /\ writer[t].pc = "flush"
    /\ IF clickhouse_buffer = <<>>
       THEN /\ writer' = [writer EXCEPT ![t].pc = AfterFlush(t)]
            /\ UNCHANGED clickhouse_buffer
       ELSE /\ writer' = [writer EXCEPT ![t] = [pc |-> "insert", batch |-> clickhouse_buffer]]
            /\ clickhouse_buffer' = <<>>
    /\ UNCHANGED <<clickhouse_store, inserts, appended, replay, startup>>
    /\ WriterUnchanged

\* clickhouse_client.insert returns
InsertOk(t) ==
    /\ writer[t].pc = "insert"
    /\ clickhouse_store' = clickhouse_store \o writer[t].batch
    /\ inserts' = Append(inserts, [rows |-> writer[t].batch, ok |-> TRUE])
    /\ writer' = [writer EXCEPT ![t] = [pc |-> AfterFlush(t), batch |-> <<>>]]
    /\ UNCHANGED <<clickhouse_buffer, appended, replay, startup>>
    /\ WriterUnchanged

\* clickhouse_client.insert raises; the store accepts inserts again after
\* MaxInsertFailures failures.
InsertFail(t) ==
    /\ writer[t].pc = "insert"
    /\ FailedInserts < MaxInsertFailures
    /\ inserts' = Append(inserts, [rows |-> writer[t].batch, ok |-> FALSE])
    /\ writer' = [writer EXCEPT ![t].pc = "putback"]
    /\ UNCHANGED <<clickhouse_buffer, clickhouse_store, appended, replay, startup>>
    /\ WriterUnchanged

\* Mutation: the failed rows replace the buffer.
FlushPutBack_overwrite(t) ==
    /\ writer[t].pc = "putback"
    /\ clickhouse_buffer' = writer[t].batch
    /\ writer' = [writer EXCEPT ![t] = [pc |-> AfterFlush(t), batch |-> <<>>]]
    /\ UNCHANGED <<clickhouse_store, inserts, appended, replay, startup>>
    /\ WriterUnchanged

\* Mutation: the exception leaves periodic_flush, the timer is not armed again.
FlushPutBack_norearm(t) ==
    /\ writer[t].pc = "putback"
    /\ clickhouse_buffer' = writer[t].batch \o clickhouse_buffer
    /\ writer' = [writer EXCEPT ![t] = [pc |-> "idle", batch |-> <<>>]]
    /\ UNCHANGED <<clickhouse_store, inserts, appended, replay, startup>>
    /\ WriterUnchanged

\* the except branch, second critical section:
\* clickhouse_buffer = rows_to_insert + clickhouse_buffer
FlushPutBack(t) ==
    /\ writer[t].pc = "putback"
    /\ clickhouse_buffer' = writer[t].batch \o clickhouse_buffer
    /\ writer' = [writer EXCEPT ![t] = [pc |-> AfterFlush(t), batch |-> <<>>]]
    /\ UNCHANGED <<clickhouse_store, inserts, appended, replay, startup>>
    /\ WriterUnchanged

\* The timer expires: periodic_flush starts.
TimerFire ==
    /\ writer["timer"].pc = "armed"
    /\ writer' = [writer EXCEPT !["timer"].pc = "flush"]
    /\ UNCHANGED <<clickhouse_buffer, clickhouse_store, inserts, appended, replay, startup>>
    /\ WriterUnchanged

\* schedule_clickhouse_flush at the end of periodic_flush
TimerRearm ==
    /\ writer["timer"].pc = "rearm"
    /\ writer' = [writer EXCEPT !["timer"].pc = "armed"]
    /\ UNCHANGED <<clickhouse_buffer, clickhouse_store, inserts, appended, replay, startup>>
    /\ WriterUnchanged

\* One step of a flush_clickhouse_buffer in progress.
FlushStep(t) == FlushSwap(t) \/ InsertOk(t) \/ InsertFail(t) \/ FlushPutBack(t)

NextWriter ==
    \/ \E t \in Sources : WriterAppend(t)
    \/ \E t \in WriterThreads : FlushSwap(t)
    \/ \E t \in WriterThreads : InsertOk(t)
    \/ \E t \in WriterThreads : InsertFail(t)
    \/ \E t \in WriterThreads : FlushPutBack(t)
    \/ TimerFire
    \/ TimerRearm

\* Every thread that can take a step eventually takes one; callbacks need not
\* keep appending.
SpecWriter ==
    /\ Init /\ [][NextWriter]_vars
    /\ WF_vars(TimerFire) /\ WF_vars(TimerRearm)
    /\ \A t \in WriterThreads : WF_vars(FlushStep(t))

\* ------------------------------------------------ loading a pending file
\* The timestamps a pending file can hold, around both limits of the filter.
FileTimes == {T0 - PENDING_TELEMETRY_MAX_AGE - 1, T0 - PENDING_TELEMETRY_MAX_AGE, T0,
              T0 + FUTURE_TIMESTAMP_TOLERANCE, T0 + FUTURE_TIMESTAMP_TOLERANCE + 1}
FileReadings == {<<"temperature", 185, "C", ts>> : ts \in FileTimes}
\* The "pending_telemetry" object of a file: no node, or one node with a
\* non-empty list of readings.
PendingFiles ==
    {EmptyDict} \cup
    UNION {{[n \in {"!000000a1"} |-> q] : q \in [1..len -> FileReadings]} : len \in 1..MaxFileLen}

\* The "nodes_with_position" object of a file: no node, or the node at P1. A
\* record and a queue for the same node are left behind when the write of the
\* pending file failed, or the process ended, after the position was saved.
PositionFiles ==
    {EmptyDict,
     [n \in {"!000000a1"} |->
         [lat |-> 400000000, lon |-> 0 - 740000000, alt |-> NoneNum,
          hardware |-> NoneStr, name |-> "WS-1", last_env_time |-> NoTime]]}

\* P1 at another altitude.
P1Up == Position(400000000, 0 - 740000000, 10)
LoadPositions == {P1, P2, P1Up}

\* A process about to start beside the cache files left for the US source.
InitLoad ==
    /\ now = T0
    /\ phase = "stopped"
    /\ positions = [r \in Sources |-> EmptyDict]
    /\ pending_telemetry = [r \in Sources |-> EmptyDict]
    /\ pending_node_info = [r \in Sources |-> EmptyDict]
    /\ dedup_cache = EmptyDict
    /\ dedup_last_cleanup = T0
    /\ save_counter = [r \in Sources |-> 0]
    /\ clickhouse_buffer = <<>>
    /\ clickhouse_store = <<>>
    /\ \E file \in PositionFiles :
          disk_positions = [r \in Sources |-> IF r = "US" THEN file ELSE EmptyDict]
    /\ \E file \in PendingFiles :
          disk_pending = [r \in Sources |-> IF r = "US" THEN file ELSE EmptyDict]
    /\ ft_log = <<>>
    /\ appended = <<>>
    /\ expired = {}
    /\ delivered = EmptyDict
    /\ seen_position = {}
    /\ inserts = <<>>
    /\ callback = [r \in Sources |-> Idle]
    /\ writer = WriterStart
    /\ ticks = 0
    /\ restarts = 0
    /\ replay = NoReplay
    /\ startup = Started

\* The file is loaded some time after it was written; the node's position
\* then drains what was kept.
NextLoad ==
    \/ Tick
    \/ Run
    \/ \E pos \in LoadPositions : PositionEvent("US", "!000000a1", pos)

SpecLoad == InitLoad /\ [][NextLoad]_vars

\* ------------------------------------------------ the position cache file
\* json.dump and json.load of the cache file. A coordinate is the float
\* latitude_i / 1e7, written as its shortest decimal text; the altitude and
\* last_env_time are ints; None is written as null; a NodeRecord that never
\* saw a reading has no "last_env_time" member.
Abs(x) == IF x < 0 THEN 0 - x ELSE x

\* Mutation: a coordinate is written with six decimals.
json_float_rounded(x) ==
    [t |-> "number", neg |-> x < 0, whole |-> Abs(x) \div DEGREE_SCALE,
     frac |-> (Abs(x) % DEGREE_SCALE) - (Abs(x) % 10)]

json_float(x) ==
    [t |-> "number", neg |-> x < 0, whole |-> Abs(x) \div DEGREE_SCALE,
     frac |-> Abs(x) % DEGREE_SCALE]
float_of(j) == (IF j.neg THEN 0 - 1 ELSE 1) * (j.whole * DEGREE_SCALE + j.frac)
json_int(x) == [t |-> "int", v |-> x]
json_str(x) == [t |-> "string", v |-> x]
json_null == [t |-> "null"]

json_dump_entry(rec) ==
    LET entry == [lat |-> IF rec.lat = NoneNum THEN json_null ELSE json_float(rec.lat),
                  lon |-> IF rec.lon = NoneNum THEN json_null ELSE json_float(rec.lon),
                  alt |-> IF rec.alt = NoneNum THEN json_null ELSE json_int(rec.alt),
                  hardware |-> IF rec.hardware = NoneStr THEN json_null
                               ELSE json_str(rec.hardware),
                  name |-> IF rec.name = NoneStr THEN json_null ELSE json_str(rec.name)]
    IN IF rec.last_env_time = NoTime THEN entry
       ELSE Put(entry, "last_env_time", json_int(rec.last_env_time))

json_load_entry(obj) ==
    [lat |-> IF obj.lat.t = "null" THEN NoneNum ELSE float_of(obj.lat),
     lon |-> IF obj.lon.t = "null" THEN NoneNum ELSE float_of(obj.lon),
     alt |-> IF obj.alt.t = "null" THEN NoneNum ELSE obj.alt.v,
     hardware |-> IF obj.hardware.t = "null" THEN NoneStr ELSE obj.hardware.v,
     name |-> IF obj.name.t = "null" THEN NoneStr ELSE obj.name.v,
     last_env_time |-> IF "last_env_time" \in DOMAIN obj THEN obj.last_env_time.v ELSE NoTime]

\* data = {"nodes_with_position": positions, "saved_at": int(time.time())}
json_dump_cache(store, saved_at) ==
    [nodes_with_position |-> [n \in DOMAIN store |-> json_dump_entry(store[n])],
     saved_at |-> saved_at]

\* _load_cache: {} when there is no file, else data.get("nodes_with_position")
json_load_cache(data) ==
    IF data = EmptyDict THEN EmptyDict
    ELSE [n \in DOMAIN data.nodes_with_position |->
             json_load_entry(data.nodes_with_position[n])]

\* The NodeRecords the handlers can build for one node.
CacheRecords ==
    [lat : {400000000, 400000001}, lon : {0 - 740000000, 0 - 1234567}, alt : {NoneNum, 10},
     hardware : {NoneStr, "HELTEC_V3"}, name : {NoneStr, "WS-1"},
     last_env_time : {NoTime, T0 - 60}]
CacheStores == {EmptyDict} \cup {[n \in {"!000000a1"} |-> rec] : rec \in CacheRecords}

\* A process holding some NodeRecord store for the US source, no file yet.
InitCache ==
    /\ now = T0
    /\ phase = "loop"
    /\ \E store \in CacheStores :
          positions = [r \in Sources |-> IF r = "US" THEN store ELSE EmptyDict]
    /\ pending_telemetry = [r \in Sources |-> EmptyDict]
    /\ pending_node_info = [r \in Sources |-> EmptyDict]
    /\ dedup_cache = EmptyDict
    /\ dedup_last_cleanup = T0
    /\ save_counter = [r \in Sources |-> 0]
    /\ clickhouse_buffer = <<>>
    /\ clickhouse_store = <<>>
    /\ disk_positions = [r \in Sources |-> EmptyDict]
    /\ disk_pending = [r \in Sources |-> EmptyDict]
    /\ ft_log = <<>>
    /\ appended = <<>>
    /\ expired = {}
    /\ delivered = EmptyDict
    /\ seen_position = {}
    /\ inserts = <<>>
    /\ callback = [r \in Sources |-> Idle]
    /\ writer = WriterStart
    /\ ticks = 0
    /\ restarts = 0
    /\ replay = NoReplay
    /\ startup = Started

\* _save_cache("US", positions), the file held as the document json.dump writes
CacheSave ==
    /\ disk_positions' = [disk_positions EXCEPT !["US"] = json_dump_cache(positions["US"], now)]
    /\ UNCHANGED <<now, phase, positions, pending_telemetry, pending_node_info, dedup_cache,
                   dedup_last_cleanup, save_counter, clickhouse_buffer, clickhouse_store,
                   disk_pending, ft_log, appended, expired, delivered, seen_position,
                   inserts, callback, writer, ticks, restarts, replay, startup>>

\* A new process reads the file: _load_cache in run()
CacheLoad ==
    /\ restarts < MaxRestarts
    /\ restarts' = restarts + 1
    /\ positions' = [positions EXCEPT !["US"] = json_load_cache(disk_positions["US"])]
    /\ dedup_last_cleanup' = now
    /\ UNCHANGED <<now, phase, pending_telemetry, pending_node_info, dedup_cache,
                   save_counter, clickhouse_buffer, clickhouse_store, disk_positions,
                   disk_pending, ft_log, appended, expired, delivered, seen_position,
                   inserts, callback, writer, ticks, replay, startup>>

NextCache ==
    \/ Tick
    \/ CacheSave
    \/ CacheLoad

SpecCache == InitCache /\ [][NextCache]_vars

\* ------------------------------------------------ feeding a recorded stream
\* How a piece of code ends: the state it leaves, and whether an exception is
\* propagating out of it.
Returns(st) == [st |-> st, raised |-> FALSE]
Raises(st) == [st |-> st, raised |-> TRUE]

\* Bytes that are no protobuf message: ParseFromString raises DecodeError. A
\* payload that is no message of its port has payload_parses false.
Garbage == "garbage"

\* "except Exception as e: self.logger.error(...)" closing each handler
handler_except(outcome) == [outcome EXCEPT !.raised = FALSE]

\* The handler of the port number, inside its own try: the payload is parsed
\* first, then handled.
handle_decoded(st, region, node_id, msg) ==
    IF msg.portnum \notin {"POSITION_APP", "NODEINFO_APP", "TELEMETRY_APP"} THEN Returns(st)
    ELSE handler_except(
             IF ~msg.payload_parses THEN Raises(st)
             ELSE IF msg.portnum = "POSITION_APP"
                  THEN Returns(handle_position(st, region, node_id, msg.payload))
             ELSE IF msg.portnum = "NODEINFO_APP"
                  THEN Returns(handle_nodeinfo(st, region, node_id, msg.payload))
             ELSE Returns(handle_telemetry(st, region, node_id, msg.payload)))

\* The body of on_message's try: parse the envelope, take the decoded packet
\* or decrypt it (no plaintext: return; plaintext that is no Data message:
\* ParseFromString raises), dispatch.
on_message_body(st, region, node_id, msg) ==
    IF msg.envelope = Garbage THEN Raises(st)
    ELSE IF msg.cipher = "no_plaintext" THEN Returns(st)
    ELSE IF msg.cipher = Garbage THEN Raises(st)
    ELSE handle_decoded(st, region, node_id, msg)

\* Mutation: on_message has no "except Exception".
on_message_uncaught(st, region, node_id, msg) == on_message_body(st, region, node_id, msg)

\* on_message: "except Exception: pass" around the body
on_message(st, region, node_id, msg) ==
    [on_message_body(st, region, node_id, msg) EXCEPT !.raised = FALSE]

Message(portnum, payload) ==
    [envelope |-> "ok", cipher |-> "decoded", portnum |-> portnum,
     payload_parses |-> TRUE, payload |-> payload]

\* The messages of a recorded stream: their bytes, and so their timestamps,
\* are the same each time they are fed.
ReplayMessages ==
    {Message("POSITION_APP", P1),
     Message("TELEMETRY_APP", StampedAt(T0)),
     Message("TELEMETRY_APP", StampedAt(T0 + FUTURE_TIMESTAMP_TOLERANCE + 1)),
     [Message("POSITION_APP", P1) EXCEPT !.payload_parses = FALSE],
     [Message("POSITION_APP", P1) EXCEPT !.envelope = Garbage],
     [Message("POSITION_APP", P1) EXCEPT !.cipher = Garbage],
     [Message("POSITION_APP", P1) EXCEPT !.cipher = "no_plaintext"]}
Scripts == UNION {[1..len -> ReplayMessages] : len \in 1..MaxScript}

\* The messages of a stream that exercises the position and node info
\* handlers: positions with and without coordinates, node info carrying a
\* name, a hardware model, both or neither, and a reading.
FeedMessages ==
    {Message("POSITION_APP", P1),
     Message("POSITION_APP", P2),
     Message("POSITION_APP", NoLat),
     Message("POSITION_APP", NoLon),
     Message("NODEINFO_APP", User("WS-1", 43)),
     Message("NODEINFO_APP", User("WS-2", 0)),
     Message("NODEINFO_APP", User("", 0)),
     Message("TELEMETRY_APP", StampedAt(T0))}
FeedScripts == UNION {[1..len -> FeedMessages] : len \in 1..MaxScript}

\* A fresh process about to be fed one of the streams on the US source,
\* twice in a row.
InitFed(scripts) ==
    /\ now = T0
    /\ phase = "loop"
    /\ positions = [r \in Sources |-> EmptyDict]
    /\ pending_telemetry = [r \in Sources |-> EmptyDict]
    /\ pending_node_info = [r \in Sources |-> EmptyDict]
    /\ dedup_cache = EmptyDict
    /\ dedup_last_cleanup = T0
    /\ save_counter = [r \in Sources |-> 0]
    /\ clickhouse_buffer = <<>>
    /\ clickhouse_store = <<>>
    /\ disk_positions = [r \in Sources |-> EmptyDict]
    /\ disk_pending = [r \in Sources |-> EmptyDict]
    /\ ft_log = <<>>
    /\ appended = <<>>
    /\ expired = {}
    /\ delivered = EmptyDict
    /\ seen_position = {}
    /\ inserts = <<>>
    /\ callback = [r \in Sources |-> Idle]
    /\ writer = WriterStart
    /\ ticks = 0
    /\ restarts = 0
    /\ startup = Started
    /\ \E script \in scripts :
          replay = [script |-> script, pass |-> 1, next |-> 1, rows |-> 0, rejected |-> 0,
                    disk_ok |-> TRUE]

InitReplay == InitFed(Scripts)
InitFeed == InitFed(FeedScripts)

\* on_message with the next message of the stream, cache writes failing or
\* not; an exception that leaves on_message ends the client's network thread.
\* When the first pass ends the rows committed and the telemetry rejected so
\* far are noted; replay.disk_ok tells whether the last message could write.
ReplayStep ==
    /\ replay.pass \in {1, 2}
    /\ replay.next <= Len(replay.script)
    /\ callback["US"].pc = "idle"
    /\ \E ok \in InsertOutcomes(3), disk_ok \in BOOLEAN :
          LET outcome == on_message([State EXCEPT !.insert_ok = ok, !.disk_ok = disk_ok],
                                    "US", "!000000a1", replay.script[replay.next])
              s == outcome.st
          IN /\ SetState(s)
             /\ callback' = [callback EXCEPT !["US"].pc = IF outcome.raised THEN "dead" ELSE @]
             /\ replay' = IF replay.pass = 1 /\ replay.next = Len(replay.script)
                          THEN [replay EXCEPT !.pass = 2, !.next = 1,
                                              !.rows = Len(s.appended),
                                              !.rejected = Len(s.ft_log),
                                              !.disk_ok = disk_ok]
                          ELSE [replay EXCEPT !.next = @ + 1, !.disk_ok = disk_ok]
    /\ UNCHANGED <<now, phase, writer, ticks, restarts, startup>>

NextReplay ==
    \/ Tick
    \/ ReplayStep

SpecReplay == InitReplay /\ [][NextReplay]_vars

SpecFeed == InitFeed /\ [][NextReplay]_vars

\* ------------------------------------------------ the connect loop of run()
\* A process about to run the connect loop: each region enabled or not, its
\* broker reachable or not, and a pending file left for the US source.
InitStart ==
    /\ now = T0
    /\ phase = "starting"
    /\ positions = [r \in Sources |-> EmptyDict]
    /\ pending_telemetry = [r \in Sources |-> EmptyDict]
    /\ pending_node_info = [r \in Sources |-> EmptyDict]
    /\ dedup_cache = EmptyDict
    /\ dedup_last_cleanup = T0
    /\ save_counter = [r \in Sources |-> 0]
    /\ clickhouse_buffer = <<>>
    /\ clickhouse_store = <<>>
    /\ disk_positions = [r \in Sources |-> EmptyDict]
    /\ \E file \in PendingFiles :
          disk_pending = [r \in Sources |-> IF r = "US" THEN file ELSE EmptyDict]
    /\ ft_log = <<>>
    /\ appended = <<>>
    /\ expired = {}
    /\ delivered = EmptyDict
    /\ seen_position = {}
    /\ inserts = <<>>
    /\ callback = [r \in Sources |-> Idle]
    /\ writer = WriterStart
    /\ ticks = 0
    /\ restarts = 0
    /\ replay = NoReplay
    /\ \E enabled \in [Sources -> BOOLEAN], reachable \in [Sources -> BOOLEAN] :
          startup = [todo |-> RegionOrder, enabled |-> enabled, reachable |-> reachable,
                     clients |-> {}, failed |-> {}]

StartUnchanged ==
    UNCHANGED <<now, pending_node_info, dedup_cache, dedup_last_cleanup, save_counter,
                clickhouse_buffer, clickhouse_store, disk_positions, disk_pending, ft_log,
                appended, expired, delivered, seen_position, inserts, callback, writer,
                ticks, restarts, replay>>

\* Mutation: a failed connect ends the loop.
StartRegion_abort ==
    /\ phase = "starting"
    /\ startup.todo # <<>>
    /\ LET region == Head(startup.todo)
           connected == startup.enabled[region] /\ startup.reachable[region]
           rest == IF startup.enabled[region] /\ ~connected THEN <<>> ELSE Tail(startup.todo)
       IN /\ IF startup.enabled[region]
             THEN /\ positions' = [positions EXCEPT ![region] = load_cache(State, region)]
                  /\ pending_telemetry' =
                        [pending_telemetry EXCEPT ![region] = load_pending_telemetry(State, region)]
                  /\ startup' = [startup EXCEPT
                                    !.todo = rest,
                                    !.clients = IF connected THEN @ \cup {region} ELSE @,
                                    !.failed = IF connected THEN @ ELSE @ \cup {region}]
             ELSE /\ startup' = [startup EXCEPT !.todo = rest]
                  /\ UNCHANGED <<positions, pending_telemetry>>
          /\ phase' = IF rest = <<>> THEN "loop" ELSE "starting"
    /\ StartUnchanged

\* One turn of the loop "for region, config in self.regions.items()": skip a
\* disabled region; else load its caches, create its client, connect and
\* start it, or note the failure. After the last region the main loop begins.
StartRegion ==
    /\ phase = "starting"
    /\ startup.todo # <<>>
    /\ LET region == Head(startup.todo)
           connected == startup.enabled[region] /\ startup.reachable[region]
           rest == Tail(startup.todo)
       IN /\ IF startup.enabled[region]
             THEN /\ positions' = [positions EXCEPT ![region] = load_cache(State, region)]
                  /\ pending_telemetry' =
                        [pending_telemetry EXCEPT ![region] = load_pending_telemetry(State, region)]
                  /\ startup' = [startup EXCEPT
                                    !.todo = rest,
                                    !.clients = IF connected THEN @ \cup {region} ELSE @,
                                    !.failed = IF connected THEN @ ELSE @ \cup {region}]
             ELSE /\ startup' = [startup EXCEPT !.todo = rest]
                  /\ UNCHANGED <<positions, pending_telemetry>>
          /\ phase' = IF rest = <<>> THEN "loop" ELSE "starting"
    /\ StartUnchanged

\* The connect loop, with the clients already started delivering positions.
NextStart ==
    \/ Tick
    \/ StartRegion
    \/ \E region \in Sources : PositionEvent(region, "!000000a1", P1)

SpecStart == InitStart /\ [][NextStart]_vars

\* ------------------------------------------------ the amortised save
\* The position cache file of a source whose node was seen at P1 by an
\* earlier process.
CountFile ==
    [n \in {"!000000a1"} |->
        [lat |-> 400000000, lon |-> 0 - 740000000, alt |-> NoneNum,
         hardware |-> NoneStr, name |-> NoneStr, last_env_time |-> NoTime]]

\* A process about to start beside the position cache files of both sources.
InitCount ==
    /\ now = T0
    /\ phase = "stopped"
    /\ positions = [r \in Sources |-> EmptyDict]
    /\ pending_telemetry = [r \in Sources |-> EmptyDict]
    /\ pending_node_info = [r \in Sources |-> EmptyDict]
    /\ dedup_cache = EmptyDict
    /\ dedup_last_cleanup = T0
    /\ save_counter = [r \in Sources |-> 0]
    /\ clickhouse_buffer = <<>>
    /\ clickhouse_store = <<>>
    /\ disk_positions = [r \in Sources |-> CountFile]
    /\ disk_pending = [r \in Sources |-> EmptyDict]
    /\ ft_log = <<>>
    /\ appended = <<>>
    /\ expired = {}
    /\ delivered = EmptyDict
    /\ seen_position = {}
    /\ inserts = <<>>
    /\ callback = [r \in Sources |-> Idle]
    /\ writer = WriterStart
    /\ ticks = 0
    /\ restarts = 0
    /\ replay = NoReplay
    /\ startup = Started

\* The n-th reading of a run of readings: stamped later than every reading
\* before it, or earlier than every one of them.
Newer(n) == StampedAt(T0 - 100 + n)
Older(n) == StampedAt(T0 - 200 - n)

\* on_message with a TELEMETRY_APP packet, one of a long run of readings; the
\* store accepts every insert.
CountedTelemetry(region, tel) ==
    /\ ClientsRunning
    /\ region \in startup.clients
    /\ Len(appended) < MaxReadings
    /\ SetState(handle_telemetry(State, region, "!000000a1", tel))
    /\ UNCHANGED <<now, phase, callback, writer, ticks, restarts, replay, startup>>

NextCount ==
    \/ Run
    \/ CountedTelemetry("US", Newer(Len(appended)))
    \/ CountedTelemetry("US", Older(Len(appended)))
    \/ CountedTelemetry("EU_868", Newer(Len(appended)))

SpecCount == InitCount /\ [][NextCount]_vars

\* ------------------------------------------------ the metrics of an event
\* Environment telemetry stamped now, each of its three metrics present or 0:
\* 18.5 C, 45 %, 1013.2 hPa.
MetricTelemetry ==
    {Telemetry(TRUE, now, t, h, p) : t \in {0, 185}, h \in {0, 450}, p \in {0, 10132}}

\* One source: a node's position and telemetry carrying any of the metrics.
NextMetrics ==
    \/ Tick
    \/ PositionEvent("US", "!000000a1", P1)
    \/ \E tel \in MetricTelemetry : TelemetryEvent("US", "!000000a1", tel)

SpecMetrics == Init /\ [][NextMetrics]_vars

\* ------------------------------------------------ the dedup collection
\* Clock jumps around the cleanup interval, and one that brings an entry to
\* the age limit or one second short of it.
GCJumps == {DEDUP_CACHE_CLEANUP_INTERVAL, DEDUP_CACHE_CLEANUP_INTERVAL + 1,
            DEDUP_CACHE_MAX_AGE - DEDUP_CACHE_CLEANUP_INTERVAL - 1}

GCTick ==
    /\ ticks < MaxTicks
    /\ \E d \in GCJumps : now' = now + d
    /\ ticks' = ticks + 1
    /\ UNCHANGED <<phase, positions, pending_telemetry, pending_node_info, dedup_cache,
                   dedup_last_cleanup, save_counter, clickhouse_buffer, clickhouse_store,
                   disk_positions, disk_pending, ft_log, appended, expired, delivered,
                   seen_position, inserts, writer, callback, restarts, replay, startup>>

\* One source: two readings, stamped T0 - 60 and T0, delivered again and
\* again as the clock passes the cleanup interval and the age limit.
NextGC ==
    \/ GCTick
    \/ PositionEvent("US", "!000000a1", P1)
    \/ \E t \in {T0 - 60, T0} : TelemetryEvent("US", "!000000a1", StampedAt(t))

SpecGC == Init /\ [][NextGC]_vars

\* ------------------------------------------------ two sources side by side
\* A message for the node handled on a source: a position, node info or one
\* of two readings.
EventOn(region) ==
    \/ \E pos \in {P1, P2} : PositionEvent(region, "!000000a1", pos)
    \/ NodeInfoEvent(region, "!000000a1", User("WS-1", 43))
    \/ \E t \in {T0 - 60, T0} : TelemetryEvent(region, "!000000a1", StampedAt(t))

\* Two sources hearing the same node, each handling its own messages.
NextFrame == \E region \in Sources : EventOn(region)

SpecFrame == Init /\ [][NextFrame]_vars

\* ------------------------------------------------ the files beside memory
\* One source: positions, node info carrying a name and hardware or nothing,
\* and readings stamped a week back, which the next clock step makes too old
\* for the pending buffer; the clock advancing, a shutdown and a restart.
NextPersist ==
    \/ Tick
    \/ \E pos \in {P1, P2} : PositionEvent("US", "!000000a1", pos)
    \/ \E user \in {User("WS-1", 43), User("", 0)} : NodeInfoEvent("US", "!000000a1", user)
    \/ TelemetryEvent("US", "!000000a1", TempAt(WeekOld))
    \/ ShutdownSave
    \/ ShutdownFlush
    \/ ShutdownDisconnect
    \/ Run

SpecPersist == Init /\ [][NextPersist]_vars

\* One source: positions, node info and telemetry of one node, with restarts.
Next ==
    \/ Tick
    \/ \E pos \in {P1, P2, NoLat, NoLon} : PositionEvent("US", "!000000a1", pos)
    \/ \E user \in {User("WS-1", 43)} : NodeInfoEvent("US", "!000000a1", user)
    \/ \E tel \in {TempAt(OnTime), NoTimestamp, NoEnvironment} :
          TelemetryEvent("US", "!000000a1", tel)
    \/ ShutdownSave
    \/ ShutdownFlush
    \/ ShutdownDisconnect
    \/ Run

Spec == Init /\ [][Next]_vars

\* One source: the timestamp rules (future tolerance, pending age).
NextTime ==
    \/ Tick
    \/ \E pos \in {P1, NoLat} : PositionEvent("US", "!000000a1", pos)
    \/ \E tel \in {TempAt(OnTime), TempAt(TooEarly), TempAt(WeekOld)} :
          TelemetryEvent("US", "!000000a1", tel)
    \/ ShutdownSave
    \/ ShutdownFlush
    \/ ShutdownDisconnect
    \/ Run

SpecTime == Init /\ [][NextTime]_vars

\* Two sources sharing the dedup window: one reading, stamped T0, delivered
\* again and again on either source as the clock advances.
NextDedup ==
    \/ Tick
    \/ \E region \in Sources : PositionEvent(region, "!000000a1", P1)
    \/ \E region \in Sources : TelemetryEvent(region, "!000000a1", StampedAt(T0))
    \/ ShutdownSave
    \/ ShutdownFlush
    \/ ShutdownDisconnect
    \/ Run

SpecDedup == Init /\ [][NextDedup]_vars

\* ------------------------------------------------------------ properties
TheNode == "!000000a1"

HasRecord(region, node_id) == node_id \in DOMAIN positions[region]
Queue(region, node_id) ==
    IF node_id \in DOMAIN pending_telemetry[region]
    THEN pending_telemetry[region][node_id] ELSE <<>>
RowKey(row) == DedupKey(row.device_id, row.reading_type, row.timestamp)
RowsOfKey(key) == {i \in 1..Len(appended) : RowKey(appended[i].row) = key}
NewRows == {i \in 1..Len(appended') : i > Len(appended)}
SeqMax(q) == CHOOSE m \in {q[i][4] : i \in 1..Len(q)} : \A i \in 1..Len(q) : q[i][4] <= m

\* C1: position after telemetry. A first reading for a node without a
\* NodeRecord emits no row and is queued; a valid position handled while the
\* queued readings are at most 7 days old then appends exactly one row per
\* queued reading, carrying the new lat/lon, empties the queue and leaves
\* last_env_time at the reading's timestamp.
C1_PositionAfterTelemetry ==
    [][\A region \in Sources :
        /\ \A d \in {OnTime, WeekOld} :
              ( /\ TelemetryEvent(region, TheNode, TempAt(d))
                /\ ~HasRecord(region, TheNode)
                /\ ~is_duplicate_reading(State, TheNode, "temperature", now + d) )
              => /\ appended' = appended
                 /\ pending_telemetry'[region][TheNode] =
                       Append(Queue(region, TheNode), <<"temperature", 185, "C", now + d>>)
        /\ \A pos \in {P1, P2} :
              ( /\ PositionEvent(region, TheNode, pos)
                /\ ~HasRecord(region, TheNode)
                /\ Queue(region, TheNode) # <<>>
                /\ FilterValid(Queue(region, TheNode), now) = Queue(region, TheNode) )
              => /\ Len(appended') = Len(appended) + Len(Queue(region, TheNode))
                 /\ \A i \in NewRows :
                       /\ appended'[i].row.latitude = pos.latitude_i
                       /\ appended'[i].row.longitude = pos.longitude_i
                       /\ appended'[i].row.timestamp = Queue(region, TheNode)[i - Len(appended)][4]
                 /\ TheNode \notin DOMAIN pending_telemetry'[region]
                 /\ positions'[region][TheNode].last_env_time = SeqMax(Queue(region, TheNode))
      ]_vars

C3_LaterArrivalDropped ==
    [][\A region \in Sources :
        LET key == DedupKey(TheNode, "temperature", T0)
        IN ( /\ TelemetryEvent(region, TheNode, StampedAt(T0))
             /\ key \in DOMAIN dedup_cache
             /\ now - dedup_cache[key] < DEDUP_CACHE_MAX_AGE )
           => /\ appended' = appended
              /\ clickhouse_buffer' = clickhouse_buffer
              /\ pending_telemetry' = pending_telemetry
              /\ disk_pending' = disk_pending
              /\ positions' = positions
              /\ key \in DOMAIN dedup_cache'
              /\ dedup_cache'[key] = dedup_cache[key]
      ]_vars

\* The same reading arrived on US and then on EU_868, both with a NodeRecord:
\* one row, the one of US.
C3_Witness ==
    \E key \in DOMAIN delivered :
        /\ delivered[key] = <<"US", "EU_868">>
        /\ HasRecord("US", TheNode) /\ HasRecord("EU_868", TheNode)
        /\ Cardinality(RowsOfKey(key)) = 1
        /\ \A i \in RowsOfKey(key) : appended[i].row.network_source = "US"

\* The callback threads that are past the dedup check with the given key.
PassedWith(key) ==
    {r \in Sources : /\ callback[r].pc \in {"insert", "passed"}
                     /\ DedupKey(callback[r].node_id, callback[r].reading_type,
                                 callback[r].timestamp) = key}

\* C4: when two source callback threads handle the same reading key
\* concurrently, at most one of them passes the dedup check under every
\* interleaving, so at most one row is produced for that key.
C4_AtMostOnePasses ==
    \A key \in DOMAIN delivered :
        /\ Cardinality(PassedWith(key)) <= 1
        /\ Cardinality(RowsOfKey(key)) <= 1

\* C5: the last_env_time of a NodeRecord never decreases and, once set, is never
\* unset, across every step including a clean shutdown and the restart after it.
C5_LastEnvTimeNeverDecreases ==
    [][\A region \in Sources : \A node_id \in DOMAIN positions[region] :
          positions[region][node_id].last_env_time # NoTime
          => /\ node_id \in DOMAIN positions'[region]
             /\ positions'[region][node_id].last_env_time
                    >= positions[region][node_id].last_env_time
      ]_vars

NoRecord ==
    [lat |-> NoneNum, lon |-> NoneNum, alt |-> NoneNum,
     hardware |-> NoneStr, name |-> NoneStr, last_env_time |-> NoTime]
RecordOf(region, node_id) ==
    IF HasRecord(region, node_id) THEN positions[region][node_id] ELSE NoRecord
\* The Position event is classified NEW or CHANGED.
NewOrChanged(region, node_id, pos) ==
    \/ ~HasRecord(region, node_id)
    \/ RecordOf(region, node_id).lat # PositionLat(pos)
    \/ RecordOf(region, node_id).lon # PositionLon(pos)
    \/ RecordOf(region, node_id).alt # PositionAlt(pos)
RowTimes(rows) == {appended'[i].row.timestamp : i \in rows}
SetMax(S) == CHOOSE m \in S : \A x \in S : x <= m

\* C6 as stated: a Position event classified NEW or CHANGED, with no pending
\* node info, replaces lat, lon and alt and leaves last_env_time, name and
\* hardware as they were.
C6_PositionLeavesLastEnvTime ==
    [][\A pos \in {P1, P2} :
          ( /\ PositionEvent("US", TheNode, pos)
            /\ NewOrChanged("US", TheNode, pos)
            /\ TheNode \notin DOMAIN pending_node_info["US"] )
          => /\ TheNode \in DOMAIN positions'["US"]
             /\ positions'["US"][TheNode] =
                   [RecordOf("US", TheNode) EXCEPT !.lat = PositionLat(pos),
                                                   !.lon = PositionLon(pos),
                                                   !.alt = PositionAlt(pos)]
      ]_vars

\* C6 amended: such an event replaces lat, lon and alt and leaves name and
\* hardware as they were; last_env_time is left as it was unless the drain of
\* the node's pending telemetry commits rows in the same event, and then it is
\* the largest timestamp of those rows.
C6_PositionUpdate ==
    [][\A pos \in {P1, P2} :
          ( /\ PositionEvent("US", TheNode, pos)
            /\ NewOrChanged("US", TheNode, pos)
            /\ TheNode \notin DOMAIN pending_node_info["US"] )
          => /\ TheNode \in DOMAIN positions'["US"]
             /\ positions'["US"][TheNode] =
                   [RecordOf("US", TheNode) EXCEPT
                       !.lat = PositionLat(pos),
                       !.lon = PositionLon(pos),
                       !.alt = PositionAlt(pos),
                       !.last_env_time = IF NewRows = {} THEN @
                                         ELSE SetMax(RowTimes(NewRows) \cup {@})]
      ]_vars

\* A CHANGED position: the record is at P2, the row that set its last_env_time
\* was committed at P1, and the name and hardware learnt before are still there.
C6_Witness ==
    /\ HasRecord("US", TheNode)
    /\ positions["US"][TheNode].lat = PositionLat(P2)
    /\ positions["US"][TheNode].name = "WS-1"
    /\ positions["US"][TheNode].hardware = "HELTEC_V3"
    /\ \E i \in 1..Len(appended) :
          /\ appended[i].row.latitude = PositionLat(P1)
          /\ appended[i].row.timestamp = positions["US"][TheNode].last_env_time

\* C7: a NodeRecord (S, N) exists exactly when a valid Position event of (S, N)
\* has been handled; it has non-zero lat and lon; telemetry and node info never
\* create one and nothing deletes one.
C7_RecordIffValidPosition ==
    \A region \in Sources : \A node_id \in Nodes :
        /\ HasRecord(region, node_id) <=> <<region, node_id>> \in seen_position
        /\ HasRecord(region, node_id)
           => /\ positions[region][node_id].lat # 0
              /\ positions[region][node_id].lon # 0

\* The record is there after a restart, with telemetry and node info handled.
C7_Witness ==
    /\ HasRecord("US", TheNode)
    /\ restarts > 0
    /\ positions["US"][TheNode].name = "WS-1"
    /\ appended # <<>>

\* C8: every row handed to the writer carries a timestamp at most
\* FUTURE_TIMESTAMP_TOLERANCE seconds ahead of the clock at the moment it is
\* appended, whether it comes straight from telemetry or from a drain.
C8_NoRowFromTheFuture ==
    \A i \in 1..Len(appended) :
        appended[i].row.timestamp <= appended[i].at + FUTURE_TIMESTAMP_TOLERANCE

\* A row stamped exactly at the tolerance has been appended.
C8_Witness ==
    \E i \in 1..Len(appended) :
        appended[i].row.timestamp = appended[i].at + FUTURE_TIMESTAMP_TOLERANCE

\* C9: telemetry stamped exactly now + 30 is accepted (its key enters the dedup
\* window and it is committed or queued); telemetry stamped now + 31 is
\* rejected and leaves the NodeRecords, the pending queues, the dedup window,
\* the buffer and the store as they were, only logging the rejection.
C9_ToleranceBoundary ==
    [][ /\ TelemetryEvent("US", TheNode, TempAt(TooEarly))
           => /\ UNCHANGED <<positions, pending_telemetry, pending_node_info, dedup_cache,
                             dedup_last_cleanup, clickhouse_buffer, clickhouse_store,
                             disk_positions, disk_pending, appended, delivered>>
              /\ ft_log' = Append(ft_log, [node_id |-> TheNode, region |-> "US",
                                            ahead |-> TooEarly])
        /\ LET key == DedupKey(TheNode, "temperature", now + OnTime)
           IN ( /\ TelemetryEvent("US", TheNode, TempAt(OnTime))
                /\ key \notin DOMAIN dedup_cache )
              => /\ key \in DOMAIN dedup_cache'
                 /\ ft_log' = ft_log
                 /\ IF HasRecord("US", TheNode)
                    THEN /\ Cardinality(NewRows) = 1
                         /\ \A i \in NewRows : RowKey(appended'[i].row) = key
                    ELSE /\ NewRows = {}
                         /\ pending_telemetry'["US"][TheNode] =
                               Append(Queue("US", TheNode),
                                      <<"temperature", 185, "C", now + OnTime>>)
      ]_vars

\* Both sides of the boundary have happened: a rejection 31 seconds ahead is in
\* the log and a key stamped 30 seconds ahead of its arrival is in the window.
C9_Witness ==
    /\ \E i \in 1..Len(ft_log) : ft_log[i].ahead = FUTURE_TIMESTAMP_TOLERANCE + 1
    /\ \E key \in DOMAIN dedup_cache :
          key[3] = dedup_cache[key] + FUTURE_TIMESTAMP_TOLERANCE

\* C10: a queued reading whose timestamp is more than PENDING_TELEMETRY_MAX_AGE
\* older than the clock when the first valid Position of its node is handled is
\* discarded by that drain: the event commits no row for it, the queue is gone
\* from memory and from the pending file, and no drain ever commits a row older
\* than the limit.
C10_ExpiredPendingDiscarded ==
    /\ [](\A i \in 1..Len(appended) :
            appended[i].via = "drain"
            => appended[i].at - appended[i].row.timestamp <= PENDING_TELEMETRY_MAX_AGE)
    /\ [][ ( /\ PositionEvent("US", TheNode, P1)
             /\ ~HasRecord("US", TheNode) )
           => \A k \in 1..Len(Queue("US", TheNode)) :
                 LET reading == Queue("US", TheNode)[k]
                 IN now - reading[4] > PENDING_TELEMETRY_MAX_AGE
                    => /\ \A i \in NewRows :
                             RowKey(appended'[i].row) # DedupKey(TheNode, reading[1], reading[4])
                       /\ TheNode \notin DOMAIN pending_telemetry'["US"]
                       /\ TheNode \notin DOMAIN disk_pending'["US"]
         ]_vars

\* A reading was discarded for its age, its node has a NodeRecord since, and no
\* row carries its key.
C10_Witness ==
    \E x \in expired :
        /\ HasRecord(x.region, x.node_id)
        /\ x.reading[4] < now - PENDING_TELEMETRY_MAX_AGE
        /\ RowsOfKey(DedupKey(x.node_id, x.reading[1], x.reading[4])) = {}

\* The two rules of the pending filter, for a load at time t.
InWindow(reading, t) ==
    /\ reading[4] >= t - PENDING_TELEMETRY_MAX_AGE
    /\ reading[4] <= t + FUTURE_TIMESTAMP_TOLERANCE

\* C11: after the pending file is loaded at startup the buffer holds, under
\* each node, exactly the persisted tuples that are at most 7 days old and at
\* most 30 seconds ahead at load time, in their original order; a node none of
\* whose tuples passes has no queue.
C11_LoadFiltersPending ==
    [][Run =>
        \A region \in Sources :
            LET file == disk_pending[region]
                mem == pending_telemetry'[region]
            IN /\ DOMAIN mem \subseteq DOMAIN file
               /\ \A n \in DOMAIN file :
                     LET kept == SelectSeq(file[n], LAMBDA r : InWindow(r, now))
                     IN IF kept = <<>> THEN n \notin DOMAIN mem
                        ELSE n \in DOMAIN mem /\ mem[n] = kept
      ]_vars

\* A file of two tuples was loaded: the second was kept, the first was not.
C11_Witness ==
    /\ phase = "loop" /\ restarts = 1
    /\ TheNode \in DOMAIN disk_pending["US"]
    /\ TheNode \in DOMAIN pending_telemetry["US"]
    /\ Len(disk_pending["US"][TheNode]) = 2
    /\ pending_telemetry["US"][TheNode] = <<disk_pending["US"][TheNode][2]>>
    /\ disk_pending["US"][TheNode][1] # disk_pending["US"][TheNode][2]

\* C12: a persisted tuple whose timestamp is exactly 604800 seconds before the
\* clock at load time is dropped by the load.
C12_ExactlySevenDaysDropped ==
    [][Run =>
        \A region \in Sources : \A n \in DOMAIN disk_pending[region] :
            \A i \in 1..Len(disk_pending[region][n]) :
                disk_pending[region][n][i][4] = now - PENDING_TELEMETRY_MAX_AGE
                => \/ n \notin DOMAIN pending_telemetry'[region]
                   \/ \A j \in 1..Len(pending_telemetry'[region][n]) :
                         pending_telemetry'[region][n][j] # disk_pending[region][n][i]
      ]_vars

\* The rows a thread holds between its swap and its insert or put-back.
InFlight(t) == IF writer[t].pc \in {"insert", "putback"} THEN writer[t].batch ELSE <<>>
\* Everything the writer holds: the buffer, the in-flight batches, the store.
Held == clickhouse_buffer \o InFlight("US") \o InFlight("EU_868") \o InFlight("timer")
            \o clickhouse_store
Occurrences(q, row) == Cardinality({i \in 1..Len(q) : q[i] = row})

\* C13: when the insert of a flush fails, the put-back places the rows of the
\* failed batch at the front of the buffer in their order, ahead of the rows
\* appended meanwhile, and drops none; a later successful insert of a batch
\* adds its rows to the store in their order.
C13_FailedBatchPutBack ==
    [][\A t \in WriterThreads :
          /\ InsertFail(t) => /\ writer'[t].batch = writer[t].batch
                              /\ clickhouse_store' = clickhouse_store
          /\ FlushPutBack(t)
             => /\ clickhouse_buffer' = writer[t].batch \o clickhouse_buffer
                /\ Len(clickhouse_buffer') = Len(writer[t].batch) + Len(clickhouse_buffer)
          /\ FlushSwap(t) /\ clickhouse_buffer # <<>>
             => writer'[t].batch = clickhouse_buffer
          /\ InsertOk(t) => clickhouse_store' = clickhouse_store \o writer[t].batch
      ]_vars

\* A flush of 2 rows failed, the next insert carried the same 2 rows in the
\* same order and succeeded, and the store holds them in that order.
C13_Witness ==
    /\ Len(inserts) = 2
    /\ ~inserts[1].ok /\ inserts[2].ok
    /\ Len(inserts[1].rows) = 2
    /\ inserts[2].rows = inserts[1].rows
    /\ clickhouse_store = inserts[1].rows
    /\ clickhouse_store = <<appended[1].row, appended[2].row>>

\* The rows of the first n entries of the append history.
FirstRows(n) == [i \in 1..n |-> appended[i].row]

C15_EveryRowHeldOnce ==
    /\ Len(Held) = Len(appended)
    /\ \A i \in 1..Len(appended) : Occurrences(Held, appended[i].row) = 1

\* After a failed insert, rows sit in the buffer, in a batch in flight and in
\* the store at the same time.
C15_Witness ==
    /\ FailedInserts > 0
    /\ clickhouse_buffer # <<>>
    /\ clickhouse_store # <<>>
    /\ \E t \in WriterThreads : InFlight(t) # <<>>

\* C16: whatever the appends and flushes, two overlapping failed flushes
\* included, the rows in the buffer are in the order in which they were
\* appended.
C16_BufferInAppendOrder ==
    \A i, j \in 1..Len(clickhouse_buffer) :
        i < j => clickhouse_buffer[i].timestamp < clickhouse_buffer[j].timestamp

\* C17: the timer is armed again after every periodic flush, failed or not, and
\* every appended row reaches the store once the store accepts inserts, with no
\* further append needed.
C17_EveryRowEventuallyStored ==
    /\ (writer["timer"].pc # "armed") ~> (writer["timer"].pc = "armed")
    /\ \A k \in 1..MaxAppends :
          (Len(appended) >= k)
          ~> (Len(appended) >= k /\ Occurrences(clickhouse_store, appended[k].row) > 0)

\* Fewer rows than a batch were appended, an insert failed, and the timer's
\* later flush stored them all.
C17_Witness ==
    /\ appended # <<>>
    /\ Len(appended) < CLICKHOUSE_BATCH_SIZE
    /\ FailedInserts > 0
    /\ clickhouse_store = FirstRows(Len(appended))
    /\ writer["timer"].pc = "armed"

\* C18: the source clients are stopped before the writer is flushed and the
\* caches are persisted, so once the shutdown has begun no callback modifies
\* the NodeRecords, the pending buffers, the dedup window or the writer buffer.
C18_NoEventAfterPersist ==
    [][ (phase # "loop" /\ phase' = phase)
        => UNCHANGED <<positions, pending_telemetry, pending_node_info, dedup_cache,
                       clickhouse_buffer, appended>>
      ]_vars

\* What one step of the shutdown does, whichever step it is.
WriterFlushed ==
    /\ IF clickhouse_buffer = <<>> THEN inserts' = inserts
       ELSE /\ Len(inserts') = Len(inserts) + 1
            /\ inserts'[Len(inserts')].rows = clickhouse_buffer
    /\ UNCHANGED <<positions, pending_telemetry, disk_positions, disk_pending>>
    /\ ClientsRunning'
CachesSaved ==
    /\ \A region \in Sources :
          /\ disk_positions'[region] = IF DOMAIN positions[region] # {}
                                       THEN positions[region] ELSE disk_positions[region]
          /\ disk_pending'[region] = pending_telemetry[region]
    /\ UNCHANGED <<positions, pending_telemetry, clickhouse_buffer, clickhouse_store, inserts>>
    /\ ClientsRunning'
ClientsStopped ==
    /\ ~ClientsRunning'
    /\ UNCHANGED <<positions, pending_telemetry, disk_positions, disk_pending,
                   clickhouse_buffer, clickhouse_store, inserts>>
FirstShutdownStep == phase = "loop" /\ phase' # phase
SecondShutdownStep == phase = "sd_saved" /\ phase' # phase
ThirdShutdownStep == phase = "sd_flushed" /\ phase' # phase

C20_ExitsAfterShutdown ==
    [][ThirdShutdownStep => phase' = "exited"]_vars

\* C21: across a shutdown followed by a restart no row is committed, and the
\* pending telemetry loaded for every source is the pending telemetry that was
\* in memory at shutdown without the entries the age and future-timestamp
\* rules remove at load time.
C21_RestartKeepsRowsAndPending ==
    [][Run =>
        /\ appended' = appended
        /\ clickhouse_store' = clickhouse_store
        /\ \A region \in Sources :
              LET held == pending_telemetry[region]
                  mem == pending_telemetry'[region]
              IN /\ DOMAIN mem \subseteq DOMAIN held
                 /\ \A n \in DOMAIN held :
                       LET kept == SelectSeq(held[n], LAMBDA r : InWindow(r, now))
                       IN IF kept = <<>> THEN n \notin DOMAIN mem
                          ELSE n \in DOMAIN mem /\ mem[n] = kept
      ]_vars

\* After a restart: of two readings queued before the shutdown one was loaded
\* and the older one was filtered out.
C21_Witness ==
    /\ phase = "loop" /\ restarts = 1
    /\ TheNode \in DOMAIN disk_pending["US"]
    /\ Len(disk_pending["US"][TheNode]) = 2
    /\ Queue("US", TheNode) = <<disk_pending["US"][TheNode][2]>>
    /\ disk_pending["US"][TheNode][1][4] < now - PENDING_TELEMETRY_MAX_AGE

ReplayDone == replay.pass = 2 /\ replay.next > Len(replay.script)

\* C23 as stated: feeding the same sequence of events twice in a row to a fresh
\* process commits the rows that feeding it once commits, and no more.
C23_ReplayCommitsNothing ==
    ReplayDone => Len(appended) = replay.rows

\* C23 amended: it does so when the second pass ends less than an hour after
\* the first began and the first pass rejected no telemetry as from the future.
C23_ReplayWithinWindow ==
    (ReplayDone /\ now - T0 < DEDUP_CACHE_MAX_AGE /\ replay.rejected = 0)
    => Len(appended) = replay.rows

\* A stream of three messages that commits rows was fed twice, the second
\* pass ending 3599 s after the first began.
C23_Witness ==
    /\ ReplayDone
    /\ Len(replay.script) = MaxScript
    /\ replay.rows >= 1
    /\ replay.rejected = 0
    /\ now - T0 = DEDUP_CACHE_MAX_AGE - 1
    /\ Len(appended) = replay.rows

\* C24: once the connect loop is over, the sources with a running client are
\* exactly the enabled sources whose own connect succeeded, whichever other
\* sources failed; a disabled source never has a client.
C24_ConnectFailureIsolated ==
    /\ \A r \in startup.clients : startup.enabled[r]
    /\ phase = "loop"
       => startup.clients = {r \in Sources : startup.enabled[r] /\ startup.reachable[r]}

\* The first region's connect failed and the second region's client runs and
\* has handled a position.
C24_Witness ==
    /\ phase = "loop"
    /\ startup.failed = {"US"}
    /\ startup.clients = {"EU_868"}
    /\ HasRecord("EU_868", TheNode)

\* C25: no exception leaves the message callback of a source, whatever the
\* message (malformed envelope, undecryptable packet, malformed payload) and
\* whether or not the cache writes fail: the client's thread lives on.
C25_CallbackNeverRaises ==
    \A region \in Sources : callback[region].pc # "dead"

\* After a message whose envelope does not parse, a position was handled on
\* the same source, its cache write failed, and a reading was then committed.
C25_Witness ==
    /\ replay.pass = 2 /\ replay.next = 1
    /\ Len(replay.script) = 3
    /\ replay.script[1].envelope = Garbage
    /\ HasRecord("US", TheNode)
    /\ disk_positions["US"] = EmptyDict
    /\ Len(appended) = 1
    /\ callback["US"].pc = "idle"

RECURSIVE IsSubseq(_, _)
\* a is b with some elements left out, the order kept
IsSubseq(a, b) ==
    IF a = <<>> THEN TRUE
    ELSE IF b = <<>> THEN FALSE
    ELSE IF Head(a) = Head(b) THEN IsSubseq(Tail(a), Tail(b))
    ELSE IsSubseq(a, Tail(b))

\* The readings of the rows a step hands to the writer, in the order it does.
CommittedReadings ==
    [i \in 1..(Len(appended') - Len(appended)) |->
        LET row == appended'[Len(appended) + i].row
        IN <<row.reading_type, row.value, row.unit, row.timestamp>>]

\* C26: the rows a position-triggered drain hands to the writer are readings
\* of the node's queue that pass the age and future-timestamp rules, in the
\* order in which the queue holds them.
C26_DrainInQueueOrder ==
    [][PositionEvent("US", TheNode, P1) =>
          IsSubseq(CommittedReadings,
                   SelectSeq(Queue("US", TheNode), LAMBDA r : InWindow(r, now)))
      ]_vars

\* A drain committed two readings with different timestamps.
C26_Witness ==
    /\ Len(appended) = 2
    /\ appended[1].via = "drain" /\ appended[2].via = "drain"
    /\ appended[1].at = appended[2].at
    /\ appended[1].row.timestamp # appended[2].row.timestamp
    /\ clickhouse_buffer = <<appended[1].row, appended[2].row>>

\* A message of the stream is handled in this step; the message it is.
Feeding == replay' # replay
CurrentMessage == replay.script[replay.next]
FeedingA(portnum) == Feeding /\ CurrentMessage.portnum = portnum

\* C27: a Position event whose latitude or longitude is zero changes nothing:
\* no NodeRecord is created or modified, the node's pending node info is not
\* consumed and its pending telemetry is not drained.
C27_InvalidPositionChangesNothing ==
    [][ (/\ FeedingA("POSITION_APP")
         /\ CurrentMessage.payload.latitude_i = 0 \/ CurrentMessage.payload.longitude_i = 0)
        => UNCHANGED <<positions, pending_node_info, pending_telemetry, disk_positions,
                       disk_pending, dedup_cache, clickhouse_buffer, appended, expired>>
      ]_vars

\* Node info, a reading and then a position without latitude were fed: the
\* node info and the reading are still pending and there is no NodeRecord.
C27_Witness ==
    /\ replay.pass = 2 /\ replay.next = 1
    /\ Len(replay.script) = 3
    /\ replay.script[3] = Message("POSITION_APP", NoLat)
    /\ ~HasRecord("US", TheNode)
    /\ TheNode \in DOMAIN pending_node_info["US"]
    /\ pending_node_info["US"][TheNode].name = "WS-1"
    /\ Len(Queue("US", TheNode)) = 1

\* What the node info being handled carries.
CarriesName == CurrentMessage.payload.long_name # ""
CarriesHardware == CurrentMessage.payload.hw_model # 0
InfoOf(region, node_id) ==
    IF node_id \in DOMAIN pending_node_info[region] THEN pending_node_info[region][node_id]
    ELSE [hardware |-> NoneStr, name |-> NoneStr]

\* What a NodeInfo event does to the NodeRecord and to the pending node info.
NodeInfoUpdate ==
    IF HasRecord("US", TheNode)
    THEN LET old == positions["US"][TheNode]
             new == positions'["US"][TheNode]
         IN /\ HasRecord("US", TheNode)'
            /\ new.lat = old.lat /\ new.lon = old.lon /\ new.alt = old.alt
            /\ new.last_env_time = old.last_env_time
            /\ new.name = IF CarriesName THEN CurrentMessage.payload.long_name ELSE old.name
            /\ IF CarriesHardware THEN new.hardware \notin {NoneStr, ""}
               ELSE new.hardware = old.hardware
            /\ pending_node_info' = pending_node_info
    ELSE LET old == InfoOf("US", TheNode)
             new == InfoOf("US", TheNode)'
         IN /\ positions' = positions
            /\ disk_positions' = disk_positions
            /\ new.name = IF CarriesName THEN CurrentMessage.payload.long_name ELSE old.name
            /\ IF CarriesHardware THEN new.hardware \notin {NoneStr, ""}
               ELSE new.hardware = old.hardware

\* C29 as stated: a NodeInfo event for a node with a NodeRecord overwrites only
\* the name and hardware it carries, leaves lat, lon, alt and last_env_time,
\* and persists the store; for a node without one it only writes the carried
\* fields into the pending node info and creates no NodeRecord.
C29_NodeInfoPersists ==
    [][ FeedingA("NODEINFO_APP")
        => /\ NodeInfoUpdate
           /\ (HasRecord("US", TheNode) /\ replay'.disk_ok)
              => disk_positions'["US"] = positions'["US"]
      ]_vars

\* C29 amended: the store is persisted when the event carries a name or a
\* hardware model; an event that carries neither leaves the cache file as it is.
C29_NodeInfoPersistsWhatItCarries ==
    [][ FeedingA("NODEINFO_APP")
        => /\ NodeInfoUpdate
           /\ (HasRecord("US", TheNode) /\ replay'.disk_ok)
              => IF CarriesName \/ CarriesHardware
                 THEN disk_positions'["US"] = positions'["US"]
                 ELSE disk_positions' = disk_positions
      ]_vars

\* A position, a reading and then node info carrying a name only were fed:
\* the record has the name, no hardware and the reading's time, and the file
\* has been written with all of it.
C29_Witness ==
    /\ replay.pass = 2 /\ replay.next = 1
    /\ replay.script = <<Message("POSITION_APP", P1), Message("TELEMETRY_APP", StampedAt(T0)),
                         Message("NODEINFO_APP", User("WS-2", 0))>>
    /\ positions["US"][TheNode].name = "WS-2"
    /\ positions["US"][TheNode].hardware = NoneStr
    /\ positions["US"][TheNode].last_env_time = T0
    /\ disk_positions["US"] = positions["US"]

\* The messages handled so far, over both passes.
Fed ==
    IF replay.pass = 2 THEN replay.script \o SubSeq(replay.script, 1, replay.next - 1)
    ELSE SubSeq(replay.script, 1, replay.next - 1)

RECURSIVE LastName(_)
\* the name the latest node info that carried one gave, if any
LastName(q) ==
    IF q = <<>> THEN NoneStr
    ELSE LET m == q[Len(q)]
         IN IF m.portnum = "NODEINFO_APP" /\ m.payload.long_name # ""
            THEN m.payload.long_name
            ELSE LastName(SubSeq(q, 1, Len(q) - 1))

RECURSIVE LastHardware(_)
\* the hardware model the latest node info that carried one gave, if any
LastHardware(q) ==
    IF q = <<>> THEN 0
    ELSE LET m == q[Len(q)]
         IN IF m.portnum = "NODEINFO_APP" /\ m.payload.hw_model # 0
            THEN m.payload.hw_model
            ELSE LastHardware(SubSeq(q, 1, Len(q) - 1))

\* What the engine knows of the node's name and hardware: in its NodeRecord
\* once it has one, in the pending node info before.
Known ==
    IF HasRecord("US", TheNode)
    THEN [name |-> positions["US"][TheNode].name, hardware |-> positions["US"][TheNode].hardware]
    ELSE InfoOf("US", TheNode)

\* C30: the NodeRecord the first valid position creates carries the pending
\* name and hardware, and the pending node info is removed with it: at any
\* time the name and the hardware last learned for the node are those of its
\* NodeRecord if it has one and those of its pending node info if not.
C30_NodeInfoNeverLost ==
    /\ HasRecord("US", TheNode) => TheNode \notin DOMAIN pending_node_info["US"]
    /\ Known.name = LastName(Fed)
    /\ Known.hardware = HardwareModelName(LastHardware(Fed))

\* Node info with a name and a hardware model, node info with another name,
\* then the first position: the record has the later name and the hardware.
C30_Witness ==
    /\ replay.pass = 2 /\ replay.next = 1
    /\ replay.script = <<Message("NODEINFO_APP", User("WS-1", 43)),
                         Message("NODEINFO_APP", User("WS-2", 0)),
                         Message("POSITION_APP", P1)>>
    /\ HasRecord("US", TheNode)
    /\ positions["US"][TheNode].name = "WS-2"
    /\ positions["US"][TheNode].hardware = "HELTEC_V3"
    /\ pending_node_info["US"] = EmptyDict

RECURSIVE FirstOfEachKey(_)
\* q without the readings whose type and timestamp an earlier reading has
FirstOfEachKey(q) ==
    IF q = <<>> THEN <<>>
    ELSE LET last == q[Len(q)]
             before == SubSeq(q, 1, Len(q) - 1)
         IN IF \E i \in 1..Len(before) : before[i][1] = last[1] /\ before[i][4] = last[4]
            THEN FirstOfEachKey(before)
            ELSE Append(FirstOfEachKey(before), last)

\* C28: a valid Position for a node is NEW when the node has no record,
\* CHANGED when lat, lon or alt differs from the record and UNCHANGED
\* otherwise. NEW and CHANGED write the event's lat, lon and alt; UNCHANGED
\* leaves the record as it is, last_env_time apart; in all three cases the
\* node's queue is drained: it is gone afterwards and its valid readings that
\* the dedup window does not hold have been committed, once each.
C28_ClassifyAndDrain ==
    [][ \A pos \in LoadPositions :
          PositionEvent("US", TheNode, pos) =>
            LET is_new == ~HasRecord("US", TheNode)
                old == positions["US"][TheNode]
                new == positions'["US"][TheNode]
                changed == /\ ~is_new
                           /\ (old.lat # pos.latitude_i \/ old.lon # pos.longitude_i
                               \/ old.alt # pos.altitude)
                valid == SelectSeq(Queue("US", TheNode), LAMBDA r : InWindow(r, now))
                fresh == SelectSeq(valid, LAMBDA r :
                             DedupKey(TheNode, r[1], r[4]) \notin DOMAIN dedup_cache)
            IN /\ HasRecord("US", TheNode)'
               /\ (is_new \/ changed)
                  => /\ new.lat = pos.latitude_i /\ new.lon = pos.longitude_i
                     /\ new.alt = pos.altitude
                     /\ disk_positions'["US"] = positions'["US"]
               /\ (~is_new /\ ~changed) => [new EXCEPT !.last_env_time = old.last_env_time] = old
               /\ TheNode \notin DOMAIN pending_telemetry'["US"]
               /\ CommittedReadings = FirstOfEachKey(fresh)
      ]_vars

\* A record at P1 and a queue of two readings were loaded; a position at P1,
\* UNCHANGED, drained the queue into two rows.
C28_Witness ==
    /\ restarts = 1
    /\ Len(appended) = 2
    /\ appended[1].row.node_name = "WS-1" /\ appended[2].row.node_name = "WS-1"
    /\ appended[1].row.latitude = 400000000 /\ appended[1].row.altitude = NoneNum
    /\ appended[2].row.altitude = NoneNum
    /\ appended[1].at = appended[2].at
    /\ ~(TheNode \in DOMAIN pending_telemetry["US"])

\* The last_env_time of the node's record on the US source.
LastEnvTime == positions["US"][TheNode].last_env_time

\* C31: a reading that is no duplicate, for a node with a NodeRecord, is
\* committed with one row whatever its timestamp; it leaves last_env_time as
\* it is when its timestamp is not greater than the stored one, and
\* last_env_time is assigned, within a process run, only when it was absent or
\* the timestamp of a row committed in the same step is strictly greater.
C31_OlderReadingCommitted ==
    [][ /\ \A d \in {OnTime, WeekOld} :
              ( /\ TelemetryEvent("US", TheNode, TempAt(d))
                /\ HasRecord("US", TheNode)
                /\ DedupKey(TheNode, "temperature", now + d) \notin DOMAIN dedup_cache )
              => /\ Cardinality(NewRows) = 1
                 /\ \A i \in NewRows :
                       RowKey(appended'[i].row) = DedupKey(TheNode, "temperature", now + d)
                 /\ LastEnvTime' = IF LastEnvTime = NoTime \/ now + d > LastEnvTime
                                   THEN now + d ELSE LastEnvTime
                 /\ (LastEnvTime # NoTime /\ now + d <= LastEnvTime)
                    => positions' = positions
        /\ ( /\ restarts' = restarts
             /\ HasRecord("US", TheNode) /\ HasRecord("US", TheNode)'
             /\ LastEnvTime' # LastEnvTime )
           => /\ LastEnvTime = NoTime \/ LastEnvTime' > LastEnvTime
              /\ \E i \in NewRows : appended'[i].row.timestamp = LastEnvTime'
      ]_vars

\* A reading a week older than the stored last_env_time was committed in the
\* same process run, after the reading that set it.
C31_Witness ==
    /\ HasRecord("US", TheNode)
    /\ \E i, j \in 1..Len(appended) :
          /\ i < j
          /\ appended[i].run = restarts /\ appended[j].run = restarts
          /\ appended[i].via = "telemetry" /\ appended[j].via = "telemetry"
          /\ appended[i].row.timestamp = LastEnvTime
          /\ appended[j].row.timestamp < LastEnvTime

\* The readings committed on a source so far.
RowsOfSource(region) == {i \in 1..Len(appended) : appended[i].row.network_source = region}
\* The step assigns the last_env_time of the node's record on the source.
Updates(region) ==
    /\ HasRecord(region, TheNode)
    /\ positions'[region][TheNode].last_env_time # positions[region][TheNode].last_env_time

\* C32: the save counter of a source counts the last_env_time updates on that
\* source; the update that brings it to SAVE_EVERY saves the NodeRecord store
\* of the source and resets the counter to 0, no other reading saves the
\* store, so between events the counter is in 0..9; a reading on one source
\* leaves the counter and the cache file of the other source alone.
C32_SaveCounter ==
    /\ [](\A region \in Sources : save_counter[region] \in 0..(SAVE_EVERY - 1))
    /\ [][ restarts' = restarts
           => \A region \in Sources :
                 /\ save_counter'[region] =
                       IF Updates(region) THEN (save_counter[region] + 1) % SAVE_EVERY
                       ELSE save_counter[region]
                 /\ disk_positions'[region] =
                       IF Updates(region) /\ save_counter[region] = SAVE_EVERY - 1
                       THEN positions'[region] ELSE disk_positions[region]
                 /\ Cardinality(RowsOfSource(region)') > Cardinality(RowsOfSource(region))
                    => \A other \in Sources \ {region} :
                          /\ save_counter'[other] = save_counter[other]
                          /\ disk_positions'[other] = disk_positions[other]
         ]_vars

\* Ten updates on US saved its store and reset its counter, while the one
\* update on EU_868 is counted there and not yet saved.
C32_Witness ==
    /\ Cardinality(RowsOfSource("US")) = SAVE_EVERY
    /\ save_counter["US"] = 0
    /\ positions["US"][TheNode].last_env_time # NoTime
    /\ disk_positions["US"] = positions["US"]
    /\ save_counter["EU_868"] = 1
    /\ disk_positions["EU_868"] # positions["EU_868"]

\* The candidate readings of an environment telemetry event: its nonzero
\* metrics, temperature first, each with the event's timestamp.
Candidates(tel) ==
    SelectSeq(<< <<"temperature", tel.temperature, "C", tel.time>>,
                 <<"humidity", tel.relative_humidity, "%", tel.time>>,
                 <<"pressure", tel.barometric_pressure, "hPa", tel.time>> >>,
              LAMBDA r : r[2] # 0)
KeysOf(q) == {DedupKey(TheNode, q[i][1], q[i][4]) : i \in 1..Len(q)}

\* C33: an accepted environment telemetry event yields one candidate reading
\* per nonzero metric among temperature, humidity and pressure, all with the
\* event's timestamp: the keys the event adds to the dedup window are those of
\* its candidates that were not there, and exactly these candidates are
\* committed (node with a NodeRecord) or queued (node without). A metric that
\* is 0 gets no dedup entry, no pending entry and no row.
C33_OneReadingPerNonzeroMetric ==
    [][ \A tel \in MetricTelemetry :
          TelemetryEvent("US", TheNode, tel) =>
            LET fresh == SelectSeq(Candidates(tel), LAMBDA r :
                             DedupKey(TheNode, r[1], r[4]) \notin DOMAIN dedup_cache)
            IN /\ KeysOf(Candidates(tel)) \subseteq DOMAIN dedup_cache'
               /\ (DOMAIN dedup_cache') \ (DOMAIN dedup_cache) = KeysOf(fresh)
               /\ IF HasRecord("US", TheNode)
                  THEN /\ CommittedReadings = fresh
                       /\ pending_telemetry' = pending_telemetry
                  ELSE /\ appended' = appended
                       /\ Queue("US", TheNode)' = Queue("US", TheNode) \o fresh
                       /\ disk_pending' = pending_telemetry'
      ]_vars

\* An event with no temperature was committed as a humidity row and a
\* pressure row with one timestamp, and no temperature key of that timestamp
\* is in the dedup window.
C33_Witness ==
    /\ Len(appended) = 2
    /\ appended[1].row.reading_type = "humidity" /\ appended[1].row.value = 450
    /\ appended[2].row.reading_type = "pressure" /\ appended[2].row.unit = "hPa"
    /\ appended[1].row.timestamp = appended[2].row.timestamp
    /\ DedupKey(TheNode, "temperature", appended[1].row.timestamp) \notin DOMAIN dedup_cache
    /\ Cardinality(DOMAIN dedup_cache) = 2

Collects == dedup_last_cleanup' # dedup_last_cleanup
\* The entry of the key is younger than the age limit.
Young(key) == now - dedup_cache[key] < DEDUP_CACHE_MAX_AGE

\* C35: the dedup collection runs only in a step that makes a dedup check,
\* more than DEDUP_CACHE_CLEANUP_INTERVAL seconds after the previous one; it
\* keeps exactly the entries inserted less than DEDUP_CACHE_MAX_AGE seconds
\* before, and a step without collection removes nothing, so an entry younger
\* than the limit is never removed; a reading whose key is not in the window,
\* or is collected by its own check, is treated as new: its key is entered
\* with the current time and the reading is committed or queued.
C35_DedupCollection ==
    [][ /\ Collects
           => /\ now - dedup_last_cleanup > DEDUP_CACHE_CLEANUP_INTERVAL
              /\ dedup_last_cleanup' = now
              /\ delivered' # delivered \/ Queue("US", TheNode) # <<>>
              /\ \A key \in DOMAIN dedup_cache' : now - dedup_cache'[key] < DEDUP_CACHE_MAX_AGE
              /\ \A key \in DOMAIN dedup_cache :
                    ~Young(key) => key \notin DOMAIN dedup_cache' \/ dedup_cache'[key] = now
        /\ \A key \in DOMAIN dedup_cache :
              (Young(key) \/ ~Collects)
              => key \in DOMAIN dedup_cache' /\ dedup_cache'[key] = dedup_cache[key]
        /\ \A t \in {T0 - 60, T0} :
              LET key == DedupKey(TheNode, "temperature", t)
              IN ( /\ TelemetryEvent("US", TheNode, StampedAt(t))
                   /\ \/ key \notin DOMAIN dedup_cache
                      \/ /\ ~Young(key)
                         /\ now - dedup_last_cleanup > DEDUP_CACHE_CLEANUP_INTERVAL )
                 => /\ key \in DOMAIN dedup_cache' /\ dedup_cache'[key] = now
                    /\ IF HasRecord("US", TheNode)
                       THEN CommittedReadings = <<<<"temperature", 185, "C", t>>>>
                       ELSE Queue("US", TheNode)' =
                               Append(Queue("US", TheNode), <<"temperature", 185, "C", t>>)
      ]_vars

\* A collection an hour after the first reading removed its entry and kept
\* the entry of a reading that came 301 s later; the first reading, delivered
\* again, was committed a second time.
C35_Witness ==
    LET first == DedupKey(TheNode, "temperature", T0)
        second == DedupKey(TheNode, "temperature", T0 - 60)
    IN /\ now = T0 + DEDUP_CACHE_MAX_AGE
       /\ dedup_last_cleanup = now
       /\ first \in DOMAIN dedup_cache /\ dedup_cache[first] = now
       /\ second \in DOMAIN dedup_cache
       /\ dedup_cache[second] = T0 + DEDUP_CACHE_CLEANUP_INTERVAL + 1
       /\ Cardinality(RowsOfKey(first)) = 2
       /\ Cardinality(RowsOfKey(second)) = 1

\* What a source owns: its NodeRecords, its pending telemetry and node info,
\* its save counter and its two cache files.
Owned(region) ==
    <<positions[region], pending_telemetry[region], pending_node_info[region],
      save_counter[region], disk_positions[region], disk_pending[region]>>

\* C36: an event handled on a source leaves the NodeRecord store, the pending
\* telemetry, the pending node info, the save counter and the cache files of
\* every other source as they were; what it can change beyond its own source
\* is the dedup window and the writer (its buffer and what it inserted).
C36_OtherSourcesUntouched ==
    [][ \A region \in Sources :
          EventOn(region)
          => /\ \A other \in Sources \ {region} : Owned(other)' = Owned(other)
             /\ UNCHANGED <<now, phase, callback, writer, restarts, startup>>
      ]_vars

\* US committed a reading at its own position and name; EU_868, with neither,
\* queued another reading and node info, and dropped the reading US had
\* committed as a duplicate.
C36_Witness ==
    /\ HasRecord("US", TheNode) /\ ~HasRecord("EU_868", TheNode)
    /\ positions["US"][TheNode].last_env_time = T0
    /\ positions["US"][TheNode].name = "WS-1"
    /\ save_counter = [r \in Sources |-> IF r = "US" THEN 1 ELSE 0]
    /\ Queue("EU_868", TheNode) = <<<<"temperature", 185, "C", T0 - 60>>>>
    /\ TheNode \in DOMAIN pending_node_info["EU_868"]
    /\ DedupKey(TheNode, "temperature", T0) \in DOMAIN delivered
    /\ delivered[DedupKey(TheNode, "temperature", T0)] = <<"US", "EU_868">>
    /\ Len(appended) = 1

\* C37: after every completed event handling, from an empty process on, no
\* node of any source has pending node info and a NodeRecord at the same
\* time.
C37_NoPendingInfoBesideRecord ==
    \A region \in Sources : \A node_id \in Nodes :
        ~(HasRecord(region, node_id) /\ node_id \in DOMAIN pending_node_info[region])

\* Node info came first and was pending, the position merged it into the new
\* record, and later node info went to the record: nothing is pending.
C37_Witness ==
    /\ replay.pass = 2 /\ replay.next = 1
    /\ replay.script = <<Message("NODEINFO_APP", User("WS-1", 43)),
                         Message("POSITION_APP", P1),
                         Message("NODEINFO_APP", User("WS-2", 0))>>
    /\ HasRecord("US", TheNode)
    /\ positions["US"][TheNode].name = "WS-2"
    /\ positions["US"][TheNode].hardware = "HELTEC_V3"
    /\ TheNode \notin DOMAIN pending_node_info["US"]

\* C38: after every completed event handling, from an empty process on, a
\* node with a NodeRecord has no queue of pending telemetry, and telemetry
\* handled for a node that has a NodeRecord leaves the pending buffer and its
\* file as they are.
C38_NoQueueBesideRecord ==
    /\ [](\A region \in Sources : \A node_id \in Nodes :
            HasRecord(region, node_id) => node_id \notin DOMAIN pending_telemetry[region])
    /\ [][ (FeedingA("TELEMETRY_APP") /\ HasRecord("US", TheNode))
           => UNCHANGED <<pending_telemetry, disk_pending>>
         ]_vars

\* A reading was queued, the position removed the queue, and the same
\* reading, delivered again after its dedup entry was collected, was
\* committed: nothing is pending.
C38_Witness ==
    /\ replay.pass = 2 /\ replay.next = 1
    /\ replay.script = <<Message("TELEMETRY_APP", StampedAt(T0)),
                         Message("POSITION_APP", P1),
                         Message("TELEMETRY_APP", StampedAt(T0))>>
    /\ HasRecord("US", TheNode)
    /\ pending_telemetry["US"] = EmptyDict
    /\ Len(appended) = 1
    /\ appended[1].via = "telemetry"

\* A NodeRecord without its last_env_time.
Located(rec) == [rec EXCEPT !.last_env_time = NoTime]
\* The cache file of the source has the nodes of the store, each with the
\* lat, lon, alt, name and hardware of its record; where a last_env_time
\* differs, at least one and fewer than SAVE_EVERY updates are counted.
StoreAgrees(region) ==
    /\ DOMAIN disk_positions[region] = DOMAIN positions[region]
    /\ \A n \in DOMAIN positions[region] :
          Located(disk_positions[region][n]) = Located(positions[region][n])
    /\ save_counter[region] < SAVE_EVERY
    /\ disk_positions[region] # positions[region] => save_counter[region] > 0
\* The step handles a message (it is no clock step, shutdown step or restart).
Handles == now' = now /\ phase' = phase /\ restarts' = restarts

\* C39 as stated: after every event handling the pending file of the source
\* equals the in-memory pending telemetry, and the cache file agrees with the
\* NodeRecord store up to last_env_time.
C39_FilesMatchMemory ==
    [][ Handles => /\ disk_pending'["US"] = pending_telemetry'["US"]
                   /\ StoreAgrees("US")'
      ]_vars

\* C39 amended: the cache file agrees with the store up to last_env_time
\* after every event; the pending file equals the in-memory pending telemetry
\* after every event that changes the buffer and, in a process that started
\* without a pending file, after every event; an event that leaves the buffer
\* as it is leaves the file as it is, entries the startup load filtered out
\* included.
C39_FilesFollowMemory ==
    [][ Handles => /\ StoreAgrees("US")'
                   /\ IF pending_telemetry'["US"] # pending_telemetry["US"]
                      THEN disk_pending'["US"] = pending_telemetry'["US"]
                      ELSE disk_pending'["US"] = disk_pending["US"]
                   /\ restarts = 0 => disk_pending'["US"] = pending_telemetry'["US"]
      ]_vars

\* After a restart whose load filtered out a reading: the file still holds it;
\* a position, node info and a reading were handled since, and the record has
\* a last_env_time the file has not.
C39_Witness ==
    /\ restarts = 1
    /\ TheNode \in DOMAIN disk_pending["US"]
    /\ pending_telemetry["US"] = EmptyDict
    /\ HasRecord("US", TheNode)
    /\ positions["US"][TheNode].name = "WS-1"
    /\ positions["US"][TheNode].last_env_time # NoTime
    /\ disk_positions["US"][TheNode].last_env_time = NoTime
    /\ save_counter["US"] = 1

\* C40: for every row handed to the writer in the current process run, the
\* NodeRecord of the row's source and node exists and has a last_env_time
\* that is set and not smaller than the row's timestamp, whatever positions,
\* node info and readings were handled since.
C40_LastEnvTimeCoversRows ==
    \A i \in 1..Len(appended) :
        appended[i].run = restarts
        => LET region == appended[i].row.network_source
               node_id == appended[i].row.device_id
           IN /\ HasRecord(region, node_id)
              /\ positions[region][node_id].last_env_time # NoTime
              /\ positions[region][node_id].last_env_time >= appended[i].row.timestamp

\* A reading stamped T0 and then an older one were committed on US, and the
\* node's position changed afterwards: last_env_time is still T0.
C40_Witness ==
    /\ Len(appended) = 2
    /\ appended[1].row.network_source = "US" /\ appended[2].row.network_source = "US"
    /\ appended[1].row.timestamp = T0
    /\ appended[2].row.timestamp = T0 - 60
    /\ appended[2].row.latitude = PositionLat(P1)
    /\ HasRecord("US", TheNode)
    /\ positions["US"][TheNode].lat = PositionLat(P2)
    /\ positions["US"][TheNode].last_env_time = T0

====
